---- MODULE Spec2Model ----
(***************************************************************************)
(* Zerothlayer: the command/history engine (HistoryManager), the command   *)
(* objects (selection, crop) and the selection interaction controller of   *)
(* the Canvas component.                                                   *)
(*                                                                         *)
(* SpecHistory drives a HistoryManager of any maximum depth with opaque    *)
(* Action objects; Spec drives the Canvas component, whose HistoryManager  *)
(* is built with depth 50.                                                 *)
(***************************************************************************)
EXTENDS Integers, Sequences, FiniteSets, TLC

\* ------------------------------------------------------------------ bounds
MaxDepth == 3      \* SpecHistory: maxHistorySize ranges over 0..MaxDepth
MaxCmds == 5       \* SpecHistory: Action objects created in one behaviour
MaxCount == 3      \* SpecHistory: cap of the undo / redo call counters
MaxActions == 2    \* Spec: commands created in one behaviour
MaxObjs == 3       \* Spec: fabric objects created in one behaviour
MaxLayers == 1     \* Spec: layers added in one behaviour
MaxPending == 1    \* Spec: crop() calls waiting for their cropped image

\* ------------------------------------------------------- program constants
DefaultHistorySize == 50
MinSelectionSize == 5

VARIABLES
    \* HistoryManager fields
    undoStack,          \* Action[] (most recent last)
    redoStack,          \* Action[] (most recent last)
    maxHistorySize,
    \* observation of the latest HistoryManager operation
    calls,              \* Action methods the engine called, in order
    notes,              \* onHistoryChange deliveries <<canUndo, canRedo>>, in order
    \* bookkeeping of SpecHistory
    nextId,             \* next Action identity
    lastOp, prevOp,     \* names of the latest and the previous engine operation
    preUndo, preRedo,   \* the two stacks before the latest operation
    prevPreRedo,        \* redoStack before the operation preceding the latest
    undosSince,         \* undo calls that found a command since the last execute/clear
    redosSince,         \* redo calls that found a command since the last execute/clear
    evicted,            \* ids dropped from undoStack by the size limit
    \* layer store (zustand)
    layers,             \* Layer[] (newest first)
    activeLayerId,      \* 0 = null
    activeTool,
    nextLayer,
    \* fabric canvas
    canvasObjects,      \* objects on the canvas
    objs,               \* every fabric object created: id -> properties
    nextObj,
    canvasWidth, canvasHeight,
    viewportTransform,  \* canvas.viewportTransform, the six numbers of the matrix
    \* Canvas component refs and state
    selectionRectRef,           \* 0 = null
    selectionBeforeModifyRef,   \* <<>> = null, <<geometry>>
    layerMapRef,                \* layer id -> image object
    documentOriginRef,
    canvasSize,                 \* <<>> = null, <<[width, height]>>
    \* setupSelectionInteraction closure and the pointer
    isDrawing, startX, startY,
    tempSelection,              \* canvas._tempSelection.rect, 0 = null
    pointerDown,                \* the mouse button is held
    dragTarget,                 \* object fabric is transforming, 0 = none
    \* crop() calls suspended at their await
    cropPending,
    \* what the page last received through onSelectionChange: <<>> = null
    selectionData,
    \* bookkeeping of the round-trip law
    preSnaps,           \* per undoStack entry: the state before its user action
    gestureSnap,        \* state before / after the pointer-down of the gesture
    maskCall,           \* where createMaskFromSelection is: "idle" or "applied"
    \* observation of a user session (Session specifications only)
    lastUserOp,         \* the latest user operation and its arguments
    scriptStep,         \* steps of the mask scenario done so far, -1 = left the script
    \* pixel buffers of the mask generator (SpecInvert only)
    pixelsIn,           \* luminance of the mask image drawn, per sampled pixel
    pixelsOut,          \* <<>> or <<the buffer generated from it>>
    \* invertMask() / featherMask() calls suspended at `await loadImage`
    maskPending

histVars == <<undoStack, redoStack, maxHistorySize, calls, notes>>
ghostVars == <<nextId, lastOp, prevOp, preUndo, preRedo, prevPreRedo, undosSince, redosSince,
               evicted>>
storeVars == <<activeLayerId, activeTool, nextLayer>>
worldVars == <<canvasObjects, objs, selectionRectRef, selectionData, layerMapRef, layers>>
sizeVars == <<canvasWidth, canvasHeight, viewportTransform, documentOriginRef, canvasSize>>
ctrlVars == <<isDrawing, startX, startY, tempSelection, pointerDown, dragTarget,
              selectionBeforeModifyRef>>
snapVars == <<preSnaps, gestureSnap>>
editorVars == <<storeVars, worldVars, sizeVars, ctrlVars, nextObj, cropPending, snapVars>>
pixelVars == <<pixelsIn, pixelsOut, maskPending>>
obsVars == <<lastUserOp, scriptStep, pixelVars>>
vars == <<histVars, ghostVars, editorVars, maskCall, obsVars>>

\* ----------------------------------------------------------------- helpers
Last(s) == s[Len(s)]
Front(s) == SubSeq(s, 1, Len(s) - 1)
Ids(s) == [i \in 1..Len(s) |-> s[i].id]
Range(s) == {s[i] : i \in 1..Len(s)}

\* map.set(k, v) / map.delete(k) on a Map held as a function
MapSet(m, k, v) == [x \in (DOMAIN m) \cup {k} |-> IF x = k THEN v ELSE m[x]]
MapDelete(m, k) == [x \in (DOMAIN m) \ {k} |-> m[x]]

\* JavaScript `x || 1` on a number
OrOne(x) == IF x = 0 THEN 1 ELSE x

\* the six properties ModifySelectionAction saves and restores
Geometry(o) ==
    [left |-> o.left, top |-> o.top, scaleX |-> OrOne(o.scaleX), scaleY |-> OrOne(o.scaleY),
     width |-> o.width, height |-> o.height]

\* rect.set(state)
SetGeometry(o, g) ==
    [o EXCEPT !.left = g.left, !.top = g.top, !.scaleX = g.scaleX, !.scaleY = g.scaleY,
              !.width = g.width, !.height = g.height]

\* ------------------------------------------------- what a command can touch
\* The fabric canvas, the fabric objects, the selection ref, the data handed
\* to the page, the layer map and the store's layers, as one value a command
\* maps to the next.
World ==
    [canvasObjects |-> canvasObjects, objs |-> objs, selectionRectRef |-> selectionRectRef,
     selectionData |-> selectionData, layerMapRef |-> layerMapRef, layers |-> layers]

SetWorld(w) ==
    /\ canvasObjects' = w.canvasObjects
    /\ objs' = w.objs
    /\ selectionRectRef' = w.selectionRectRef
    /\ selectionData' = w.selectionData
    /\ layerMapRef' = w.layerMapRef
    /\ layers' = w.layers

canvas_add(w, o) == [w EXCEPT !.canvasObjects = @ \cup {o}]
canvas_remove(w, o) == [w EXCEPT !.canvasObjects = @ \ {o}]

\* a FabricImage as FabricImage.fromURL makes it, placed at (x, y)
NewImage(x, y) ==
    [kind |-> "image", left |-> x, top |-> y, visible |-> TRUE, opacity |-> 100,
     clipPath |-> <<>>, hasMaskApplied |-> FALSE]

\* processLayers' handling of the mask: an object without _hasMaskApplied gets
\* a clip made from the layer's visible mask (<<>> = undefined), one that has
\* it keeps its clip; without a visible mask the clip is removed
clipFor(l, o) ==
    IF l.mask # <<>> /\ l.mask[1].visible
    THEN IF ~o.hasMaskApplied
         THEN [o EXCEPT !.clipPath = <<l.mask[1].dataUrl>>, !.hasMaskApplied = TRUE]
         ELSE o
    ELSE [o EXCEPT !.clipPath = <<>>, !.hasMaskApplied = FALSE]

\* the layers effect's processLayers: every layer's bound object takes the
\* layer's visible and opacity, and its clip follows clipFor
processLayers(ls, map, os) ==
    LET bound(o) == {i \in 1..Len(ls) : ls[i].id \in DOMAIN map /\ map[ls[i].id] = o}
    IN  [o \in DOMAIN os |->
            IF bound(o) = {} THEN os[o]
            ELSE LET l == ls[CHOOSE i \in bound(o) : TRUE]
                 IN  clipFor(l, [os[o] EXCEPT !.visible = l.visible, !.opacity = l.opacity])]

\* the layers effect running in world w after the store's layers changed
layersEffect(w) == [w EXCEPT !.objs = processLayers(w.layers, w.layerMapRef, w.objs)]

\* store.setLayerMask: null (<<>>) deletes the mask, a data URL sets a visible mask
setLayerMask(ls, layerId, maskDataUrl) ==
    [i \in 1..Len(ls) |->
        IF ls[i].id # layerId THEN ls[i]
        ELSE IF maskDataUrl = <<>> THEN [ls[i] EXCEPT !.mask = <<>>]
        ELSE [ls[i] EXCEPT !.mask = <<[dataUrl |-> maskDataUrl[1], visible |-> TRUE]>>]]

\* a toggle that removes a visible mask instead of hiding it
toggleLayerMask_remove(ls, layerId) ==
    [i \in 1..Len(ls) |->
        IF ls[i].id # layerId \/ ls[i].mask = <<>> THEN ls[i]
        ELSE IF ls[i].mask[1].visible THEN [ls[i] EXCEPT !.mask = <<>>]
        ELSE [ls[i] EXCEPT !.mask = <<[@[1] EXCEPT !.visible = TRUE]>>]]

\* store.toggleLayerMask
toggleLayerMask(ls, layerId) ==
    [i \in 1..Len(ls) |->
        IF ls[i].id # layerId \/ ls[i].mask = <<>> THEN ls[i]
        ELSE [ls[i] EXCEPT !.mask = <<[@[1] EXCEPT !.visible = ~@]>>]]

\* store.updateLayer(id, updates) for the visible and opacity fields
updateLayer(ls, id, visible, opacity) ==
    [i \in 1..Len(ls) |->
        IF ls[i].id # id THEN ls[i]
        ELSE [ls[i] EXCEPT !.visible = visible, !.opacity = opacity]]

\* Canvas.getSelectionData: reads selectionRectRef.current when it is called
getSelectionData(w) ==
    IF w.selectionRectRef = 0 THEN <<>>
    ELSE LET r == w.objs[w.selectionRectRef]
         IN  <<[x |-> r.left, y |-> r.top,
                width |-> r.width * r.scaleX, height |-> r.height * r.scaleY]>>

\* Canvas.handleSelectionChangeInternal
handleSelectionChangeInternal(w, sel, data) ==
    [w EXCEPT !.selectionRectRef = sel, !.selectionData = data]

\* ------------------------------------------------------------ Action objects
\* An Action of unknown class: the engine only sees execute() and undo().
OpaqueAction(id) == [id |-> id, type |-> "Opaque"]

CreateSelectionAction(id, selection, previousSelection) ==
    [id |-> id, type |-> "CreateSelection", selection |-> selection,
     previousSelection |-> previousSelection]

CreateSelectionAction_execute(a, w) ==
    LET w1 == IF a.previousSelection # 0 THEN canvas_remove(w, a.previousSelection) ELSE w
        w2 == canvas_add(w1, a.selection)
    IN  handleSelectionChangeInternal(w2, a.selection, getSelectionData(w2))

CreateSelectionAction_undo(a, w) ==
    LET w1 == canvas_remove(w, a.selection)
    IN  IF a.previousSelection # 0
        THEN LET w2 == canvas_add(w1, a.previousSelection)
             IN  handleSelectionChangeInternal(w2, a.previousSelection, getSelectionData(w2))
        ELSE handleSelectionChangeInternal(w1, 0, <<>>)

ModifySelectionAction(id, selection, previousState, newState) ==
    [id |-> id, type |-> "ModifySelection", selection |-> selection,
     previousState |-> previousState, newState |-> newState]

ModifySelectionAction_execute(a, w) ==
    LET w1 == [w EXCEPT !.objs[a.selection] = SetGeometry(@, a.newState)]
    IN  handleSelectionChangeInternal(w1, a.selection, getSelectionData(w1))

\* ModifySelectionAction.undo that reports the selection without restoring it
ModifySelectionAction_undo_keep(a, w) ==
    handleSelectionChangeInternal(w, a.selection, getSelectionData(w))

ModifySelectionAction_undo(a, w) ==
    LET w1 == [w EXCEPT !.objs[a.selection] = SetGeometry(@, a.previousState)]
    IN  handleSelectionChangeInternal(w1, a.selection, getSelectionData(w1))

ClearSelectionAction(id, selection) ==
    [id |-> id, type |-> "ClearSelection", selection |-> selection]

ClearSelectionAction_execute(a, w) ==
    handleSelectionChangeInternal(canvas_remove(w, a.selection), 0, <<>>)

ClearSelectionAction_undo(a, w) ==
    handleSelectionChangeInternal(canvas_add(w, a.selection), a.selection, <<>>)

\* new CropAction(...) followed by attachImages(prev, next)
CropAction(id, c, activeLayer, previousImage, newImage) ==
    [id |-> id, type |-> "Crop", selection |-> c.selection,
     oldWidth |-> c.oldWidth, oldHeight |-> c.oldHeight,
     newWidth |-> c.width, newHeight |-> c.height,
     oldDocOrigin |-> c.oldDocOrigin, newDocOrigin |-> c.newDocOrigin,
     cropOffsetX |-> c.x, cropOffsetY |-> c.y,
     activeLayerId |-> activeLayer, previousImage |-> previousImage, newImage |-> newImage]

\* CropAction.execute that also moves every other drawable by the crop offset
CropAction_execute_rebase(a, w) ==
    LET w1 == handleSelectionChangeInternal(canvas_remove(w, a.selection), 0, <<>>)
        moved == [o \in DOMAIN w1.objs |->
                    IF o \in {a.previousImage, a.newImage, a.selection} THEN w1.objs[o]
                    ELSE [w1.objs[o] EXCEPT !.left = @ - a.cropOffsetX,
                                            !.top = @ - a.cropOffsetY]]
        w2 == [w1 EXCEPT !.objs = moved]
    IN  IF a.previousImage # 0 /\ a.newImage # 0
        THEN LET w3 == canvas_add(canvas_remove(w2, a.previousImage), a.newImage)
             IN  IF a.activeLayerId # 0
                 THEN [w3 EXCEPT !.layerMapRef = MapSet(@, a.activeLayerId, a.newImage)]
                 ELSE w3
        ELSE w2

CropAction_execute(a, w) ==
    LET w1 == handleSelectionChangeInternal(canvas_remove(w, a.selection), 0, <<>>)
    IN  IF a.previousImage # 0 /\ a.newImage # 0
        THEN LET w2 == canvas_add(canvas_remove(w1, a.previousImage), a.newImage)
             IN  IF a.activeLayerId # 0
                 THEN [w2 EXCEPT !.layerMapRef = MapSet(@, a.activeLayerId, a.newImage)]
                 ELSE w2
        ELSE w1

CropAction_undo(a, w) ==
    LET w1 == IF a.previousImage # 0 /\ a.newImage # 0
              THEN LET w2 == canvas_add(canvas_remove(w, a.newImage), a.previousImage)
                   IN  IF a.activeLayerId # 0
                       THEN [w2 EXCEPT !.layerMapRef = MapSet(@, a.activeLayerId, a.previousImage)]
                       ELSE w2
              ELSE w
        w3 == canvas_add(w1, a.selection)
        r == w3.objs[a.selection]
        selData == [x |-> r.left, y |-> r.top,
                    width |-> r.width * OrOne(r.scaleX), height |-> r.height * OrOne(r.scaleY)]
    IN  handleSelectionChangeInternal(w3, a.selection, <<selData>>)

\* new SetMaskAction(layerId, oldMaskData, newMaskData, setLayerMask): mask
\* data is <<>> for null, oldMaskData is `oldMaskData || null`
SetMaskAction(id, layerId, oldMaskData, newMaskData) ==
    [id |-> id, type |-> "SetMask", layerId |-> layerId,
     oldMaskData |-> oldMaskData, newMaskData |-> newMaskData]

SetMaskAction_execute(a, w) ==
    layersEffect([w EXCEPT !.layers = setLayerMask(@, a.layerId, a.newMaskData)])

\* SetMaskAction.undo restoring the new mask data instead of the old
SetMaskAction_undo_new(a, w) ==
    layersEffect([w EXCEPT !.layers = setLayerMask(@, a.layerId, a.newMaskData)])

SetMaskAction_undo(a, w) ==
    layersEffect([w EXCEPT !.layers = setLayerMask(@, a.layerId, a.oldMaskData)])

\* new ToggleMaskAction(layerId, toggleLayerMask)
ToggleMaskAction(id, layerId) == [id |-> id, type |-> "ToggleMask", layerId |-> layerId]

ToggleMaskAction_execute(a, w) ==
    layersEffect([w EXCEPT !.layers = toggleLayerMask(@, a.layerId)])

ToggleMaskAction_undo(a, w) ==
    layersEffect([w EXCEPT !.layers = toggleLayerMask(@, a.layerId)])

\* action.execute(), by the class of the object
ExecuteOf(action, w) ==
    CASE action.type = "Opaque" -> w
      [] action.type = "CreateSelection" -> CreateSelectionAction_execute(action, w)
      [] action.type = "ModifySelection" -> ModifySelectionAction_execute(action, w)
      [] action.type = "ClearSelection" -> ClearSelectionAction_execute(action, w)
      [] action.type = "Crop" -> CropAction_execute(action, w)
      [] action.type = "SetMask" -> SetMaskAction_execute(action, w)
      [] action.type = "ToggleMask" -> ToggleMaskAction_execute(action, w)

\* action.undo(), by the class of the object
UndoOf(action, w) ==
    CASE action.type = "Opaque" -> w
      [] action.type = "CreateSelection" -> CreateSelectionAction_undo(action, w)
      [] action.type = "ModifySelection" -> ModifySelectionAction_undo(action, w)
      [] action.type = "ClearSelection" -> ClearSelectionAction_undo(action, w)
      [] action.type = "Crop" -> CropAction_undo(action, w)
      [] action.type = "SetMask" -> SetMaskAction_undo(action, w)
      [] action.type = "ToggleMask" -> ToggleMaskAction_undo(action, w)

\* the engine calling action.execute() in world w
Action_execute(action, w) ==
    /\ calls' = <<[method |-> "execute", id |-> action.id]>>
    /\ SetWorld(ExecuteOf(action, w))

\* the engine calling action.undo() in world w
Action_undo(action, w) ==
    /\ calls' = <<[method |-> "undo", id |-> action.id]>>
    /\ SetWorld(UndoOf(action, w))

\* ------------------------------------------------------------ HistoryManager
canUndo == Len(undoStack) > 0
canRedo == Len(redoStack) > 0

\* ---- variants of the engine's operations, each with one plausible slip
\* notifyChange that reads canUndo()/canRedo() before the stacks are updated
notifyChange_early == notes' = << <<canUndo, canRedo>> >>

\* notifyChange -> the callback given by Canvas reads canUndo()/canRedo()
notifyChange == notes' = << <<canUndo', canRedo'>> >>

\* execute that unshifts the command instead of pushing it
execute_front(action, w) ==
    /\ Action_execute(action, w)
    /\ LET pushed == <<action>> \o undoStack
       IN  undoStack' = IF Len(pushed) > maxHistorySize THEN Tail(pushed) ELSE pushed
    /\ redoStack' = <<>>
    /\ notifyChange
    /\ UNCHANGED maxHistorySize

\* execute that forgets to clear redoStack
execute_keepRedo(action, w) ==
    /\ Action_execute(action, w)
    /\ LET pushed == Append(undoStack, action)
       IN  undoStack' = IF Len(pushed) > maxHistorySize THEN Tail(pushed) ELSE pushed
    /\ UNCHANGED redoStack
    /\ notifyChange
    /\ UNCHANGED maxHistorySize

\* execute without the size limit
execute_noLimit(action, w) ==
    /\ Action_execute(action, w)
    /\ undoStack' = Append(undoStack, action)
    /\ redoStack' = <<>>
    /\ notifyChange
    /\ UNCHANGED maxHistorySize

\* execute that pop()s instead of shift()ing when over the limit
execute_pop(action, w) ==
    /\ Action_execute(action, w)
    /\ LET pushed == Append(undoStack, action)
       IN  undoStack' = IF Len(pushed) > maxHistorySize THEN Front(pushed) ELSE pushed
    /\ redoStack' = <<>>
    /\ notifyChange
    /\ UNCHANGED maxHistorySize

\* undo that does not keep the command for redo
undo_drop ==
    IF Len(undoStack) > 0
    THEN LET action == Last(undoStack)
         IN  /\ undoStack' = Front(undoStack)
             /\ Action_undo(action, World)
             /\ UNCHANGED redoStack
             /\ notifyChange
             /\ UNCHANGED maxHistorySize
    ELSE /\ calls' = <<>>
         /\ notes' = <<>>
         /\ UNCHANGED <<undoStack, redoStack, maxHistorySize, worldVars>>

\* redo that takes the oldest undone command (shift) instead of the latest (pop)
redo_oldest ==
    IF Len(redoStack) > 0
    THEN LET action == Head(redoStack)
         IN  /\ redoStack' = Tail(redoStack)
             /\ Action_execute(action, World)
             /\ undoStack' = Append(undoStack, action)
             /\ notifyChange
             /\ UNCHANGED maxHistorySize
    ELSE /\ calls' = <<>>
         /\ notes' = <<>>
         /\ UNCHANGED <<undoStack, redoStack, maxHistorySize, worldVars>>

\* clear that empties undoStack only
clear_keepRedo ==
    /\ undoStack' = <<>>
    /\ UNCHANGED redoStack
    /\ calls' = <<>>
    /\ notifyChange
    /\ UNCHANGED <<maxHistorySize, worldVars>>

\* a failing execute in an engine that pushes before it calls the command
execute_throws_pushed(action, w) ==
    /\ calls' = <<[method |-> "execute", id |-> action.id]>>
    /\ undoStack' = Append(undoStack, action)
    /\ redoStack' = <<>>
    /\ notes' = <<>>
    /\ UNCHANGED <<maxHistorySize, worldVars>>

\* a failing undo in an engine that puts the command back
undo_throws_restored ==
    /\ Len(undoStack) > 0
    /\ calls' = <<[method |-> "undo", id |-> Last(undoStack).id]>>
    /\ notes' = <<>>
    /\ UNCHANGED <<undoStack, redoStack, maxHistorySize, worldVars>>

\* clear that does not notify
clear_quiet ==
    /\ undoStack' = <<>>
    /\ redoStack' = <<>>
    /\ calls' = <<>>
    /\ notes' = <<>>
    /\ UNCHANGED <<maxHistorySize, worldVars>>

\* execute(action), called in world w
execute(action, w) ==
    /\ Action_execute(action, w)
    /\ LET pushed == Append(undoStack, action)
       IN  undoStack' = IF Len(pushed) > maxHistorySize THEN Tail(pushed) ELSE pushed
    /\ redoStack' = <<>>
    /\ notifyChange
    /\ UNCHANGED maxHistorySize

\* undo that reads the newest command without taking it off undoStack
undo_peek ==
    IF Len(undoStack) > 0
    THEN LET action == Last(undoStack)
         IN  /\ undoStack' = undoStack
             /\ Action_undo(action, World)
             /\ redoStack' = Append(redoStack, action)
             /\ notifyChange
             /\ UNCHANGED maxHistorySize
    ELSE /\ calls' = <<>>
         /\ notes' = <<>>
         /\ UNCHANGED <<undoStack, redoStack, maxHistorySize, worldVars>>

undo ==
    IF Len(undoStack) > 0
    THEN LET action == Last(undoStack)
         IN  /\ undoStack' = Front(undoStack)
             /\ Action_undo(action, World)
             /\ redoStack' = Append(redoStack, action)
             /\ notifyChange
             /\ UNCHANGED maxHistorySize
    ELSE /\ calls' = <<>>
         /\ notes' = <<>>
         /\ UNCHANGED <<undoStack, redoStack, maxHistorySize, worldVars>>

redo ==
    IF Len(redoStack) > 0
    THEN LET action == Last(redoStack)
         IN  /\ redoStack' = Front(redoStack)
             /\ Action_execute(action, World)
             /\ undoStack' = Append(undoStack, action)
             /\ notifyChange
             /\ UNCHANGED maxHistorySize
    ELSE /\ calls' = <<>>
         /\ notes' = <<>>
         /\ UNCHANGED <<undoStack, redoStack, maxHistorySize, worldVars>>

clear ==
    /\ undoStack' = <<>>
    /\ redoStack' = <<>>
    /\ calls' = <<>>
    /\ notifyChange
    /\ UNCHANGED <<maxHistorySize, worldVars>>

\* execute(action) when action.execute() throws: the call ends at its first
\* statement and the exception reaches the caller
execute_throws(action, w) ==
    /\ calls' = <<[method |-> "execute", id |-> action.id]>>
    /\ notes' = <<>>
    /\ UNCHANGED <<undoStack, redoStack, maxHistorySize, worldVars>>

\* undo() when action.undo() throws: the pop has been done, the push has not
undo_throws ==
    /\ Len(undoStack) > 0
    /\ undoStack' = Front(undoStack)
    /\ calls' = <<[method |-> "undo", id |-> Last(undoStack).id]>>
    /\ notes' = <<>>
    /\ UNCHANGED <<redoStack, maxHistorySize, worldVars>>

\* redo() when action.execute() throws: the pop has been done, the push has not
redo_throws ==
    /\ Len(redoStack) > 0
    /\ redoStack' = Front(redoStack)
    /\ calls' = <<[method |-> "execute", id |-> Last(redoStack).id]>>
    /\ notes' = <<>>
    /\ UNCHANGED <<undoStack, maxHistorySize, worldVars>>

\* ------------------------------------------------------- Canvas component
\* the container's clientWidth x clientHeight, which resizeCanvas gives the canvas
InitialCanvasSize == [width |-> 1000, height |-> 800]

\* fabric's initial viewportTransform: no zoom, no pan
IdentityTransform == <<1, 0, 0, 1, 0, 0>>

\* pointer positions, in canvas pixels
Points == {<<100, 50>>, <<103, 53>>, <<500, 350>>}

\* no mask image has been drawn on a generator canvas
NoPixels == pixelsIn = <<>> /\ pixelsOut = <<>> /\ maskPending = <<>>

InitCanvas ==
    /\ layers = <<>>
    /\ activeLayerId = 0
    /\ activeTool = "move"
    /\ nextLayer = 1
    /\ canvasObjects = {}
    /\ objs = <<>>
    /\ nextObj = 1
    /\ canvasWidth = InitialCanvasSize.width
    /\ canvasHeight = InitialCanvasSize.height
    /\ viewportTransform = IdentityTransform
    /\ selectionRectRef = 0
    /\ selectionBeforeModifyRef = <<>>
    /\ layerMapRef = <<>>
    /\ documentOriginRef = [x |-> 0, y |-> 0]
    /\ canvasSize = <<>>
    /\ isDrawing = FALSE
    /\ startX = 0
    /\ startY = 0
    /\ tempSelection = 0
    /\ pointerDown = FALSE
    /\ dragTarget = 0
    /\ cropPending = <<>>
    /\ selectionData = <<>>
    /\ preSnaps = <<>>
    /\ gestureSnap = <<>>
    /\ lastUserOp = [op |-> "none", args |-> <<>>]
    /\ scriptStep = 0
    /\ maskCall = "idle"

restVars == <<storeVars, sizeVars, ctrlVars, nextObj, cropPending, snapVars, maskCall, obsVars>>

\* -------------------------------------------------------------- SpecHistory
Track(op) ==
    /\ lastOp' = op
    /\ prevOp' = lastOp
    /\ preUndo' = undoStack
    /\ preRedo' = redoStack
    /\ prevPreRedo' = preRedo

InitHistory ==
    /\ undoStack = <<>>
    /\ redoStack = <<>>
    /\ maxHistorySize \in 0..MaxDepth
    /\ calls = <<>>
    /\ notes = <<>>
    /\ nextId = 1
    /\ lastOp = "new"
    /\ prevOp = "new"
    /\ preUndo = <<>>
    /\ preRedo = <<>>
    /\ prevPreRedo = <<>>
    /\ undosSince = 0
    /\ redosSince = 0
    /\ evicted = {}
    /\ InitCanvas
    /\ NoPixels

ExecuteOp ==
    /\ nextId <= MaxCmds
    /\ execute(OpaqueAction(nextId), World)
    /\ nextId' = nextId + 1
    /\ Track("execute")
    /\ undosSince' = 0
    /\ redosSince' = 0
    /\ evicted' = evicted \cup ((Range(Ids(undoStack)) \cup {nextId}) \ Range(Ids(undoStack')))
    /\ UNCHANGED restVars

UndoOp ==
    /\ undosSince < MaxCount
    /\ undo
    /\ Track("undo")
    /\ undosSince' = IF Len(undoStack') < Len(undoStack) THEN undosSince + 1 ELSE undosSince
    /\ UNCHANGED <<nextId, redosSince, evicted, restVars>>

RedoOp ==
    /\ redosSince < MaxCount
    /\ redo
    /\ Track("redo")
    /\ redosSince' = IF Len(redoStack') < Len(redoStack) THEN redosSince + 1 ELSE redosSince
    /\ UNCHANGED <<nextId, undosSince, evicted, restVars>>

ClearOp ==
    /\ clear
    /\ Track("clear")
    /\ undosSince' = 0
    /\ redosSince' = 0
    /\ UNCHANGED <<nextId, evicted, restVars>>

NextHistory == ExecuteOp \/ UndoOp \/ RedoOp \/ ClearOp

SpecHistory == InitHistory /\ [][NextHistory]_vars

\* ------------------------------------------------------------- SpecFailure
\* The engine with commands of which any call may throw
ExecuteFails ==
    /\ nextId <= MaxCmds
    /\ execute_throws(OpaqueAction(nextId), World)
    /\ nextId' = nextId + 1
    /\ Track("execute:threw")
    /\ UNCHANGED <<undosSince, redosSince, evicted, restVars>>

UndoFails ==
    /\ undosSince < MaxCount
    /\ undo_throws
    /\ Track("undo:threw")
    /\ undosSince' = undosSince + 1
    /\ UNCHANGED <<nextId, redosSince, evicted, restVars>>

RedoFails ==
    /\ redosSince < MaxCount
    /\ redo_throws
    /\ Track("redo:threw")
    /\ redosSince' = redosSince + 1
    /\ UNCHANGED <<nextId, undosSince, evicted, restVars>>

NextFailure ==
    ExecuteOp \/ UndoOp \/ RedoOp \/ ClearOp \/ ExecuteFails \/ UndoFails \/ RedoFails

SpecFailure == InitHistory /\ [][NextFailure]_vars

\* --------------------------------------------------------------------- Spec
\* bookkeeping of the round-trip law: the parts of the state it speaks of
Snap ==
    [objects |-> canvasObjects \ {tempSelection}, map |-> layerMapRef,
     sel |-> selectionRectRef, origin |-> documentOriginRef]

NoSnap ==
    [valid |-> FALSE,
     snap |-> [objects |-> {}, map |-> <<>>, sel |-> 0, origin |-> [x |-> 0, y |-> 0]]]

Taint(s) == [i \in 1..Len(s) |-> NoSnap]

\* a change no command records: the earlier snapshots no longer apply
Untracked == preSnaps' = IF Snap' = Snap THEN preSnaps ELSE Taint(preSnaps)

\* preSnaps after an execute that pushed `entry`
Pushed(entry) ==
    LET p == Append(preSnaps, entry)
    IN  SubSeq(p, Len(p) - Len(undoStack') + 1, Len(p))

histGhost == <<lastOp, prevOp, preUndo, preRedo, prevPreRedo, undosSince, redosSince, evicted>>

Init ==
    /\ undoStack = <<>>
    /\ redoStack = <<>>
    /\ maxHistorySize = DefaultHistorySize
    /\ calls = <<>>
    /\ notes = <<>>
    /\ nextId = 1
    /\ lastOp = "new"
    /\ prevOp = "new"
    /\ preUndo = <<>>
    /\ preRedo = <<>>
    /\ prevPreRedo = <<>>
    /\ undosSince = 0
    /\ redosSince = 0
    /\ evicted = {}
    /\ InitCanvas
    /\ NoPixels

LayerIds == {layers[i].id : i \in 1..Len(layers)}

\* Canvas.getActiveImageObject
getActiveImageObject ==
    IF activeLayerId = 0 THEN 0
    ELSE IF activeLayerId \in DOMAIN layerMapRef THEN layerMapRef[activeLayerId] ELSE 0

\* store.addLayer: opacity in percent, mask <<>> when the layer has none
addLayer(id) ==
    /\ layers' = <<[id |-> id, visible |-> TRUE, opacity |-> 100, mask |-> <<>>]>> \o layers
    /\ activeLayerId' = id

\* handleImageUpload: the callback of FabricImage.fromURL
ImageLoaded ==
    /\ nextLayer <= MaxLayers
    /\ nextObj <= MaxObjs
    /\ LET img == nextObj
           layerId == nextLayer
       IN  /\ addLayer(layerId)
           /\ layerMapRef' = MapSet(layerMapRef, layerId, img)
           /\ objs' = processLayers(layers', layerMapRef',
                                   MapSet(objs, img, NewImage(InitialCanvasSize.width \div 2,
                                                              InitialCanvasSize.height \div 2)))
           /\ canvasObjects' = canvasObjects \cup {img}
    /\ nextObj' = nextObj + 1
    /\ nextLayer' = nextLayer + 1
    /\ UNCHANGED <<histVars, nextId, histGhost, activeTool, selectionRectRef, selectionData,
                   sizeVars, ctrlVars, cropPending, gestureSnap>>
    /\ Untracked

\* store.removeLayer(id), then the layers effect of Canvas (lines 306-316)
RemoveLayer(id) ==
    /\ id \in LayerIds
    /\ LET newLayers == SelectSeq(layers, LAMBDA l : l.id # id)
       IN  /\ layers' = newLayers
           /\ activeLayerId' = IF activeLayerId = id
                               THEN IF Len(newLayers) > 0 THEN newLayers[1].id ELSE 0
                               ELSE activeLayerId
    /\ LET gone == {k \in DOMAIN layerMapRef : k \notin LayerIds \ {id}}
       IN  /\ canvasObjects' = canvasObjects \ {layerMapRef[k] : k \in gone}
           /\ layerMapRef' = [k \in (DOMAIN layerMapRef) \ gone |-> layerMapRef[k]]
    /\ objs' = processLayers(layers', layerMapRef', objs)
    /\ UNCHANGED <<histVars, nextId, histGhost, activeTool, nextLayer, selectionRectRef,
                   selectionData, sizeVars, ctrlVars, nextObj, cropPending, gestureSnap>>
    /\ Untracked

\* store.setActiveTool
SetActiveTool(tool) ==
    /\ tool # activeTool
    /\ activeTool' = tool
    /\ UNCHANGED <<histVars, nextId, histGhost, activeLayerId, nextLayer, worldVars,
                   sizeVars, ctrlVars, nextObj, cropPending, snapVars>>

\* fabric's hit test of the pointer against an object
Inside(p, o) ==
    /\ o.left <= p[1] /\ p[1] <= o.left + o.width * o.scaleX
    /\ o.top <= p[2] /\ p[2] <= o.top + o.height * o.scaleY

NewRect(x, y) ==
    [kind |-> "rect", left |-> x, top |-> y, width |-> 0, height |-> 0,
     scaleX |-> 1, scaleY |-> 1]

\* mouse:down without its test of the hit target: a press on the selection
\* starts a new draw like any other
MouseDown_redraw(p) ==
    /\ ~pointerDown
    /\ pointerDown' = TRUE
    /\ LET hit == /\ selectionRectRef # 0
                  /\ selectionRectRef \in canvasObjects
                  /\ Inside(p, objs[selectionRectRef])
       IN  /\ dragTarget' = IF hit THEN selectionRectRef ELSE 0
           /\ IF activeTool \notin {"select", "crop"} \/ getActiveImageObject = 0
              THEN UNCHANGED <<worldVars, isDrawing, startX, startY, tempSelection,
                               selectionBeforeModifyRef, nextObj>>
              ELSE /\ nextObj <= MaxObjs
                   /\ isDrawing' = TRUE
                   /\ startX' = p[1]
                   /\ startY' = p[2]
                   /\ selectionRectRef' = 0
                   /\ selectionData' = IF selectionRectRef # 0 THEN <<>> ELSE selectionData
                   /\ objs' = MapSet(objs, nextObj, NewRect(p[1], p[2]))
                   /\ canvasObjects' = (canvasObjects \ {selectionRectRef}) \cup {nextObj}
                   /\ tempSelection' = nextObj
                   /\ nextObj' = nextObj + 1
                   /\ UNCHANGED <<layerMapRef, layers, selectionBeforeModifyRef>>
    /\ UNCHANGED <<histVars, nextId, histGhost, storeVars, sizeVars, cropPending>>
    /\ gestureSnap' = <<[pre |-> Snap, post |-> Snap', stack |-> Ids(undoStack)]>>
    /\ Untracked

\* canvas.on("mouse:down")
MouseDown(p) ==
    /\ ~pointerDown
    /\ pointerDown' = TRUE
    /\ LET hit == /\ selectionRectRef # 0
                  /\ selectionRectRef \in canvasObjects
                  /\ Inside(p, objs[selectionRectRef])
       IN  /\ dragTarget' = IF hit THEN selectionRectRef ELSE 0
           /\ IF activeTool \notin {"select", "crop"} \/ getActiveImageObject = 0
              THEN UNCHANGED <<worldVars, isDrawing, startX, startY, tempSelection,
                               selectionBeforeModifyRef, nextObj>>
              ELSE IF hit
              THEN /\ selectionBeforeModifyRef' = <<Geometry(objs[selectionRectRef])>>
                   /\ UNCHANGED <<worldVars, isDrawing, startX, startY, tempSelection, nextObj>>
              ELSE /\ nextObj <= MaxObjs
                   /\ isDrawing' = TRUE
                   /\ startX' = p[1]
                   /\ startY' = p[2]
                   /\ selectionRectRef' = 0
                   /\ selectionData' = IF selectionRectRef # 0 THEN <<>> ELSE selectionData
                   /\ objs' = MapSet(objs, nextObj, NewRect(p[1], p[2]))
                   /\ canvasObjects' = (canvasObjects \ {selectionRectRef}) \cup {nextObj}
                   /\ tempSelection' = nextObj
                   /\ nextObj' = nextObj + 1
                   /\ UNCHANGED <<layerMapRef, layers, selectionBeforeModifyRef>>
    /\ UNCHANGED <<histVars, nextId, histGhost, storeVars, sizeVars, cropPending>>
    /\ gestureSnap' = <<[pre |-> Snap, post |-> Snap', stack |-> Ids(undoStack)]>>
    /\ Untracked

\* canvas.on("mouse:move")
MouseMove(p) ==
    /\ pointerDown
    /\ isDrawing
    /\ tempSelection # 0
    /\ LET rect == objs[tempSelection]
           width == p[1] - startX
           height == p[2] - startY
           r1 == IF width < 0 THEN [rect EXCEPT !.left = p[1]] ELSE rect
           r2 == IF height < 0 THEN [r1 EXCEPT !.top = p[2]] ELSE r1
           r3 == [r2 EXCEPT !.width = IF width < 0 THEN -width ELSE width,
                            !.height = IF height < 0 THEN -height ELSE height]
       IN  objs' = [objs EXCEPT ![tempSelection] = r3]
    /\ UNCHANGED <<histVars, nextId, histGhost, storeVars, canvasObjects, selectionRectRef,
                   selectionData, layerMapRef, layers, sizeVars, ctrlVars, nextObj, cropPending,
                   snapVars>>

\* the snapshot a gesture's command is recorded with
GestureEntry ==
    IF /\ gestureSnap # <<>>
       /\ gestureSnap[1].post = Snap
       /\ gestureSnap[1].stack = Ids(undoStack)
    THEN [valid |-> TRUE, snap |-> gestureSnap[1].pre]
    ELSE NoSnap

\* mouse:up that discards a rectangle only when it is small in both dimensions
MouseUpDraw_both ==
    /\ pointerDown
    /\ isDrawing /\ tempSelection # 0
    /\ pointerDown' = FALSE
    /\ dragTarget' = 0
    /\ isDrawing' = FALSE
    /\ tempSelection' = 0
    /\ startX' = 0      \* startX, startY are dead until the next mouse:down sets them
    /\ startY' = 0
    /\ LET rect == tempSelection
       IN  IF objs[rect].width < MinSelectionSize /\ objs[rect].height < MinSelectionSize
           THEN /\ canvasObjects' = canvasObjects \ {rect}
                /\ objs' = MapDelete(objs, rect)    \* nothing refers to rect any more
                /\ UNCHANGED <<histVars, nextId, selectionRectRef, selectionData,
                               layerMapRef, layers, documentOriginRef>>
                /\ Untracked
           ELSE /\ nextId <= MaxActions
                /\ LET w1 == [World EXCEPT !.selectionRectRef = rect]
                       action == CreateSelectionAction(nextId, rect, 0)
                       w2 == canvas_remove(w1, rect)
                   IN  execute(action, w2)
                /\ nextId' = nextId + 1
                /\ preSnaps' = Pushed(GestureEntry)
                /\ UNCHANGED documentOriginRef
    /\ gestureSnap' = <<>>
    /\ UNCHANGED <<histGhost, storeVars, canvasWidth, canvasHeight, canvasSize, viewportTransform,
                   selectionBeforeModifyRef, nextObj, cropPending>>

\* canvas.on("mouse:up") while a rectangle is being drawn
MouseUpDraw ==
    /\ pointerDown
    /\ isDrawing /\ tempSelection # 0
    /\ pointerDown' = FALSE
    /\ dragTarget' = 0
    /\ isDrawing' = FALSE
    /\ tempSelection' = 0
    /\ startX' = 0      \* startX, startY are dead until the next mouse:down sets them
    /\ startY' = 0
    /\ LET rect == tempSelection
       IN  IF objs[rect].width < MinSelectionSize \/ objs[rect].height < MinSelectionSize
           THEN /\ canvasObjects' = canvasObjects \ {rect}
                /\ objs' = MapDelete(objs, rect)    \* nothing refers to rect any more
                /\ UNCHANGED <<histVars, nextId, selectionRectRef, selectionData,
                               layerMapRef, layers, documentOriginRef>>
                /\ Untracked
           ELSE /\ nextId <= MaxActions
                /\ LET w1 == [World EXCEPT !.selectionRectRef = rect]
                       action == CreateSelectionAction(nextId, rect, 0)
                       w2 == canvas_remove(w1, rect)
                   IN  execute(action, w2)
                /\ nextId' = nextId + 1
                /\ preSnaps' = Pushed(GestureEntry)
                /\ UNCHANGED documentOriginRef
    /\ gestureSnap' = <<>>
    /\ UNCHANGED <<histGhost, storeVars, canvasWidth, canvasHeight, canvasSize, viewportTransform,
                   selectionBeforeModifyRef, nextObj, cropPending>>

\* where fabric can have dragged or resized the selection rectangle to
DragGeometries(o) ==
    {[o EXCEPT !.left = 103, !.top = 53, !.scaleX = 2]}

\* mouse up after a press on the selection rectangle: fabric has transformed it
\* to geometry g and, when that changed it, fires "object:modified" first
MouseUpDrag ==
    /\ pointerDown
    /\ dragTarget # 0
    /\ ~(isDrawing /\ tempSelection # 0)
    /\ pointerDown' = FALSE
    /\ dragTarget' = 0
    /\ \E g \in DragGeometries(objs[dragTarget]) \cup {objs[dragTarget]} :
         LET moved == [objs EXCEPT ![dragTarget] = g]
         IN  IF g # objs[dragTarget] /\ dragTarget = selectionRectRef
                /\ selectionBeforeModifyRef # <<>>
             THEN /\ nextId <= MaxActions
                  /\ LET action == ModifySelectionAction(nextId, selectionRectRef,
                                       selectionBeforeModifyRef[1], Geometry(g))
                     IN  execute(action, [World EXCEPT !.objs = moved])
                  /\ nextId' = nextId + 1
                  /\ selectionBeforeModifyRef' = <<>>
                  /\ preSnaps' = Pushed(GestureEntry)
             ELSE /\ objs' = moved
                  /\ UNCHANGED <<histVars, nextId, canvasObjects, selectionRectRef,
                                 selectionData, layerMapRef, layers,
                                 selectionBeforeModifyRef, preSnaps>>
    /\ gestureSnap' = <<>>
    /\ UNCHANGED <<histGhost, storeVars, sizeVars, isDrawing, startX, startY, tempSelection,
                   nextObj, cropPending>>

\* mouse up with nothing drawn and nothing dragged
MouseUpIdle ==
    /\ pointerDown
    /\ dragTarget = 0
    /\ ~(isDrawing /\ tempSelection # 0)
    /\ pointerDown' = FALSE
    /\ gestureSnap' = <<>>
    /\ UNCHANGED <<histVars, nextId, histGhost, storeVars, worldVars, sizeVars, isDrawing,
                   startX, startY, tempSelection, dragTarget, selectionBeforeModifyRef,
                   nextObj, cropPending, preSnaps>>

\* Canvas.clearSelectionWithHistory (the handle's clearSelection)
ClearSelection ==
    /\ selectionRectRef # 0
    /\ nextId <= MaxActions
    /\ execute(ClearSelectionAction(nextId, selectionRectRef), World)
    /\ nextId' = nextId + 1
    /\ preSnaps' = Pushed([valid |-> TRUE, snap |-> Snap])
    /\ UNCHANGED <<histGhost, storeVars, sizeVars, ctrlVars, nextObj, cropPending, gestureSnap>>

\* the Escape key: Canvas clears the selection, the page then selects the move tool
EscapeKey ==
    /\ IF selectionRectRef # 0
       THEN /\ nextId <= MaxActions
            /\ execute(ClearSelectionAction(nextId, selectionRectRef), World)
            /\ nextId' = nextId + 1
            /\ preSnaps' = Pushed([valid |-> TRUE, snap |-> Snap])
       ELSE UNCHANGED <<histVars, nextId, worldVars, preSnaps>>
    /\ activeTool' = "move"
    /\ UNCHANGED <<histGhost, layers, activeLayerId, nextLayer, sizeVars, ctrlVars, nextObj,
                   cropPending, gestureSnap>>

\* the rest of crop() once the cropped image (newImg, 0 = none) is there
CropComplete(c, newImg, w) ==
    /\ nextId <= MaxActions
    /\ LET w1 == [w EXCEPT !.selectionRectRef = 0]
           action == CropAction(nextId, c, activeLayerId, c.activeImg, newImg)
       IN  execute(action, w1)
    /\ nextId' = nextId + 1
    /\ preSnaps' = Pushed(IF c.snap = Snap /\ c.stack = Ids(undoStack)
                          THEN [valid |-> TRUE, snap |-> c.snap] ELSE NoSnap)

\* arguments the page calls crop() with: the current selection data
\* (handleCrop), the data it last received (the overlay button), or no extent
CropArguments ==
    {[x |-> d.x, y |-> d.y, width |-> d.width, height |-> d.height] :
        d \in Range(getSelectionData(World)) \cup Range(selectionData)}
    \cup {[x |-> 0, y |-> 0, width |-> 0, height |-> 0]}

\* crop(width, height, x, y) up to its await
CropRequest(a) ==
    /\ selectionRectRef # 0
    /\ a.width > 0 /\ a.height > 0
    /\ LET c == [selection |-> selectionRectRef, activeImg |-> getActiveImageObject,
                 oldWidth |-> canvasWidth, oldHeight |-> canvasHeight,
                 oldDocOrigin |-> documentOriginRef,
                 newDocOrigin |-> [x |-> documentOriginRef.x + a.x,
                                   y |-> documentOriginRef.y + a.y],
                 x |-> a.x, y |-> a.y, width |-> a.width, height |-> a.height,
                 snap |-> Snap, stack |-> Ids(undoStack)]
       IN  IF c.activeImg # 0
           THEN /\ Len(cropPending) < MaxPending
                /\ cropPending' = Append(cropPending, c)
                /\ UNCHANGED <<histVars, nextId, worldVars, preSnaps>>
           ELSE /\ CropComplete(c, 0, World)
                /\ UNCHANGED cropPending
    /\ UNCHANGED <<histGhost, storeVars, sizeVars, ctrlVars, nextObj, gestureSnap>>

\* crop() without its dimension check: the request goes on to discard the selection
CropRejected_discard(a) ==
    /\ selectionRectRef = 0 \/ a.width <= 0 \/ a.height <= 0
    /\ selectionRectRef' = 0
    /\ canvasObjects' = canvasObjects \ {selectionRectRef}
    /\ UNCHANGED <<histVars, ghostVars, storeVars, objs, selectionData, layerMapRef, layers,
                   sizeVars, ctrlVars, nextObj, cropPending, snapVars>>

\* crop() called without a selection or with a non-positive extent: returns
CropRejected(a) ==
    /\ selectionRectRef = 0 \/ a.width <= 0 \/ a.height <= 0
    /\ UNCHANGED <<histVars, ghostVars, editorVars, maskCall>>

\* crop() resumed: FabricImage.fromURL has produced the cropped image
CropFinish ==
    /\ cropPending # <<>>
    /\ nextObj <= MaxObjs
    /\ LET c == Head(cropPending)
           newImg == nextObj
           w == [World EXCEPT !.objs = MapSet(objs, newImg, NewImage(c.x, c.y))]
       IN  CropComplete(c, newImg, w)
    /\ cropPending' = Tail(cropPending)
    /\ nextObj' = nextObj + 1
    /\ UNCHANGED <<histGhost, storeVars, sizeVars, ctrlVars, gestureSnap>>

\* the handle's undo()
Undo ==
    /\ undo
    /\ preSnaps' = IF Len(undoStack) > 0 THEN Front(preSnaps) ELSE preSnaps
    /\ UNCHANGED <<nextId, histGhost, storeVars, sizeVars, ctrlVars, nextObj, cropPending,
                   gestureSnap>>

\* the handle's redo()
Redo ==
    /\ redo
    /\ preSnaps' = IF Len(redoStack) > 0 THEN Append(preSnaps, NoSnap) ELSE preSnaps
    /\ UNCHANGED <<nextId, histGhost, storeVars, sizeVars, ctrlVars, nextObj, cropPending,
                   gestureSnap>>

\* a step with no session observed and no createMaskFromSelection call
Unobserved == UNCHANGED <<maskCall, obsVars>>

Next ==
    \/ ImageLoaded /\ Unobserved
    \/ \E id \in LayerIds : RemoveLayer(id) /\ Unobserved
    \/ \E tool \in {"move", "select", "crop"} : SetActiveTool(tool) /\ Unobserved
    \/ \E p \in Points : MouseDown(p) /\ Unobserved
    \/ \E p \in Points : MouseMove(p) /\ Unobserved
    \/ MouseUpDraw /\ Unobserved
    \/ MouseUpDrag /\ Unobserved
    \/ MouseUpIdle /\ Unobserved
    \/ ClearSelection /\ Unobserved
    \/ EscapeKey /\ Unobserved
    \/ \E a \in CropArguments : CropRequest(a) /\ Unobserved
    \/ \E a \in CropArguments : CropRejected(a) /\ Unobserved
    \/ CropFinish /\ Unobserved
    \/ Undo /\ Unobserved
    \/ Redo /\ Unobserved

Spec == Init /\ [][Next]_vars

\* ---------------------------------------------------------------------------
\* Observed sessions: the handlers of Spec, each step noting the user
\* operation that made it
Observe(op, args) ==
    /\ lastUserOp' = [op |-> op, args |-> args]
    /\ UNCHANGED <<scriptStep, maskCall, pixelVars>>

\* pointer positions of the session: Points and one that makes a wide flat rectangle
GesturePoints == Points \cup {<<500, 53>>}

NextGesture ==
    \/ ImageLoaded /\ Observe("upload", <<>>)
    \/ SetActiveTool("select") /\ Observe("tool", <<"select">>)
    \/ \E p \in GesturePoints : MouseDown(p) /\ Observe("mouse:down", <<p>>)
    \/ \E p \in GesturePoints : MouseMove(p) /\ Observe("mouse:move", <<p>>)
    \/ MouseUpDraw /\ Observe("mouse:up", <<>>)
    \/ MouseUpIdle /\ Observe("mouse:up", <<>>)
    \/ Undo /\ Observe("undo", <<>>)
    \/ Redo /\ Observe("redo", <<>>)

SpecGesture == Init /\ [][NextGesture]_vars

\* an observed session of selecting and cropping
NextCrop ==
    \/ ImageLoaded /\ Observe("upload", <<>>)
    \/ SetActiveTool("crop") /\ Observe("tool", <<"crop">>)
    \/ \E p \in Points : MouseDown(p) /\ Observe("mouse:down", <<p>>)
    \/ \E p \in Points : MouseMove(p) /\ Observe("mouse:move", <<p>>)
    \/ MouseUpDraw /\ Observe("mouse:up", <<>>)
    \/ \E a \in CropArguments : CropRequest(a) /\ Observe("crop", <<a>>)
    \/ \E a \in CropArguments : CropRejected(a) /\ Observe("crop", <<a>>)
    \/ CropFinish /\ Observe("crop:resumed", <<>>)
    \/ Undo /\ Observe("undo", <<>>)
    \/ Redo /\ Observe("redo", <<>>)

SpecCrop == Init /\ [][NextCrop]_vars

\* ---------------------------------------------------------------------------
\* Masks: the handle's createMask, the mask buttons of the layer panel

\* generateMaskData('selection'): a canvas-sized black image with the
\* selection's extent in white
generateMaskData ==
    IF activeLayerId = 0 \/ selectionRectRef = 0 THEN <<>>
    ELSE LET selection == objs[selectionRectRef]
         IN  <<[width |-> canvasWidth, height |-> canvasHeight,
                left |-> selection.left, top |-> selection.top,
                w |-> selection.width * selection.scaleX,
                h |-> selection.height * selection.scaleY]>>

\* layers.find(l => l.id === activeLayerIdRef.current)?.mask?.dataUrl
activeMaskDataUrl ==
    LET found == SelectSeq(layers, LAMBDA l : l.id = activeLayerId)
    IN  IF found = <<>> \/ found[1].mask = <<>> THEN <<>> ELSE <<found[1].mask[1].dataUrl>>

\* createMaskFromSelection up to `await applyMaskAction(data)`
CreateMaskApply ==
    /\ maskCall = "idle"
    /\ generateMaskData # <<>>
    /\ nextId < MaxCmds
    /\ execute(SetMaskAction(nextId, activeLayerId, activeMaskDataUrl, generateMaskData), World)
    /\ nextId' = nextId + 1
    /\ maskCall' = "applied"
    /\ preSnaps' = Pushed([valid |-> TRUE, snap |-> Snap])
    /\ UNCHANGED <<histGhost, storeVars, sizeVars, ctrlVars, nextObj, cropPending, gestureSnap>>

\* createMaskFromSelection when generateMaskData returns null
CreateMaskRejected ==
    /\ maskCall = "idle"
    /\ generateMaskData = <<>>
    /\ UNCHANGED <<histVars, ghostVars, editorVars, maskCall>>

\* createMaskFromSelection after the await: clearSelectionWithHistory()
CreateMaskResume ==
    /\ maskCall = "applied"
    /\ maskCall' = "idle"
    /\ nextId <= MaxCmds
    /\ IF selectionRectRef # 0
       THEN /\ execute(ClearSelectionAction(nextId, selectionRectRef), World)
            /\ nextId' = nextId + 1
            /\ preSnaps' = Pushed([valid |-> TRUE, snap |-> Snap])
       ELSE UNCHANGED <<histVars, nextId, worldVars, preSnaps>>
    /\ UNCHANGED <<histGhost, storeVars, sizeVars, ctrlVars, nextObj, cropPending, gestureSnap>>

\* a store update made by a panel, then the layers effect of Canvas
StoreUpdate(newLayers) ==
    /\ layers' = newLayers
    /\ objs' = processLayers(newLayers, layerMapRef, objs)
    /\ UNCHANGED <<histVars, nextId, histGhost, storeVars, canvasObjects, selectionRectRef,
                   selectionData, layerMapRef, sizeVars, ctrlVars, nextObj, cropPending,
                   gestureSnap>>
    /\ Untracked

\* LayerPanel: the mask button, shown for a layer that has a mask
ToggleMaskButton(id) ==
    /\ \E i \in 1..Len(layers) : layers[i].id = id /\ layers[i].mask # <<>>
    /\ StoreUpdate(toggleLayerMask(layers, id))

\* LayerPanel: the Delete button of the active layer's mask
DeleteMaskButton ==
    /\ activeMaskDataUrl # <<>>
    /\ StoreUpdate(setLayerMask(layers, activeLayerId, <<>>))

\* LayerPanel: the eye button
ToggleVisibleButton(id) ==
    /\ \E i \in 1..Len(layers) :
         /\ layers[i].id = id
         /\ StoreUpdate(updateLayer(layers, id, ~layers[i].visible, layers[i].opacity))

\* PropertiesPanel: the opacity slider of the active layer, in percent
Opacities == {50, 100}
SetOpacity(v) ==
    /\ \E i \in 1..Len(layers) :
         /\ layers[i].id = activeLayerId
         /\ layers[i].opacity # v
         /\ StoreUpdate(updateLayer(layers, activeLayerId, layers[i].visible, v))

\* the mask scenario, as user operations
MaskScript ==
    << [op |-> "upload", args |-> <<>>],
       [op |-> "tool", args |-> <<"select">>],
       [op |-> "mouse:down", args |-> << <<50, 50>> >>],
       [op |-> "mouse:move", args |-> << <<250, 250>> >>],
       [op |-> "mouse:up", args |-> <<>>],
       [op |-> "createMask", args |-> <<>>],
       [op |-> "createMask:resumed", args |-> <<>>],
       [op |-> "toggleMask", args |-> <<1>>],
       [op |-> "undo", args |-> <<>>],
       [op |-> "undo", args |-> <<>>],
       [op |-> "undo", args |-> <<>>] >>

\* noting a user operation and whether it is the script's next one
Follow(op, args) ==
    /\ lastUserOp' = [op |-> op, args |-> args]
    /\ scriptStep' = IF /\ scriptStep \in 0..(Len(MaskScript) - 1)
                        /\ MaskScript[scriptStep + 1].op = op
                        /\ MaskScript[scriptStep + 1].args = args
                     THEN scriptStep + 1
                     ELSE -1
    /\ UNCHANGED pixelVars

\* a user event: it runs when no createMaskFromSelection call is awaiting
Idle == maskCall = "idle" /\ UNCHANGED maskCall

MaskPoints == {<<50, 50>>, <<250, 250>>}

NextMask ==
    \/ Idle /\ ImageLoaded /\ Follow("upload", <<>>)
    \/ Idle /\ SetActiveTool("select") /\ Follow("tool", <<"select">>)
    \/ \E p \in MaskPoints : Idle /\ MouseDown(p) /\ Follow("mouse:down", <<p>>)
    \/ \E p \in MaskPoints : Idle /\ MouseMove(p) /\ Follow("mouse:move", <<p>>)
    \/ Idle /\ MouseUpDraw /\ Follow("mouse:up", <<>>)
    \/ Idle /\ MouseUpIdle /\ Follow("mouse:up", <<>>)
    \/ CreateMaskApply /\ Follow("createMask", <<>>)
    \/ CreateMaskRejected /\ Follow("createMask", <<>>)
    \/ CreateMaskResume /\ Follow("createMask:resumed", <<>>)
    \/ \E id \in LayerIds : Idle /\ ToggleMaskButton(id) /\ Follow("toggleMask", <<id>>)
    \/ Idle /\ DeleteMaskButton /\ Follow("deleteMask", <<>>)
    \/ Idle /\ Undo /\ Follow("undo", <<>>)
    \/ Idle /\ Redo /\ Follow("redo", <<>>)

SpecMask == Init /\ [][NextMask]_vars

\* ---------------------------------------------------------------------------
\* Commands called again: a client that calls execute() of the command the
\* engine has just executed, or undo() of the one it has just undone, a
\* second time with nothing in between

\* a client of ToggleMaskAction: the class is exported, the editor never
\* constructs it
ExecuteToggleMask ==
    /\ activeMaskDataUrl # <<>>
    /\ nextId <= MaxCmds
    /\ execute(ToggleMaskAction(nextId, activeLayerId), World)
    /\ nextId' = nextId + 1
    /\ preSnaps' = Pushed([valid |-> TRUE, snap |-> Snap])
    /\ UNCHANGED <<histGhost, storeVars, sizeVars, ctrlVars, nextObj, cropPending, gestureSnap>>

\* noting whether the step made the engine call a command
Noting ==
    /\ lastUserOp' = [op |-> IF calls' # calls THEN "engine" ELSE "other", args |-> <<>>]
    /\ UNCHANGED <<scriptStep, pixelVars>>

\* the command's method is called once more, outside the engine
Again(method, action) ==
    /\ lastUserOp.op = "engine"
    /\ calls = <<[method |-> method, id |-> action.id]>>
    /\ calls' = Append(calls, [method |-> method, id |-> action.id])
    /\ SetWorld(IF method = "execute" THEN ExecuteOf(action, World) ELSE UndoOf(action, World))
    /\ lastUserOp' = [op |-> "again", args |-> <<>>]
    /\ UNCHANGED <<undoStack, redoStack, maxHistorySize, notes, nextId, histGhost, storeVars,
                   sizeVars, ctrlVars, nextObj, cropPending, gestureSnap, scriptStep,
                   pixelVars>>
    /\ Untracked

Reapply == undoStack # <<>> /\ Again("execute", Last(undoStack))

Rereverse == redoStack # <<>> /\ Again("undo", Last(redoStack))

NextReplay ==
    \/ Idle /\ ImageLoaded /\ Noting
    \/ Idle /\ SetActiveTool("select") /\ Noting
    \/ \E p \in MaskPoints : Idle /\ MouseDown(p) /\ Noting
    \/ \E p \in MaskPoints : Idle /\ MouseMove(p) /\ Noting
    \/ Idle /\ MouseUpDraw /\ Noting
    \/ \E a \in CropArguments : Idle /\ CropRequest(a) /\ Noting
    \/ Idle /\ CropFinish /\ Noting
    \/ CreateMaskApply /\ Noting
    \/ CreateMaskResume /\ Noting
    \/ Idle /\ ExecuteToggleMask /\ Noting
    \/ Idle /\ Undo /\ Noting
    \/ Idle /\ Redo /\ Noting
    \/ Idle /\ Reapply
    \/ Idle /\ Rereverse

SpecReplay == Init /\ [][NextReplay]_vars

\* ---------------------------------------------------------------------------
\* Cropping with the panels' untracked layer changes in between
NextLayers ==
    \/ ImageLoaded /\ Unobserved
    \/ SetActiveTool("crop") /\ Unobserved
    \/ \E p \in Points : MouseDown(p) /\ Unobserved
    \/ \E p \in Points : MouseMove(p) /\ Unobserved
    \/ MouseUpDraw /\ Unobserved
    \/ \E a \in CropArguments : CropRequest(a) /\ Unobserved
    \/ CropFinish /\ Unobserved
    \/ \E id \in LayerIds : ToggleVisibleButton(id) /\ Unobserved
    \/ \E v \in Opacities : SetOpacity(v) /\ Unobserved
    \/ Undo /\ Unobserved
    \/ Redo /\ Unobserved

SpecLayers == Init /\ [][NextLayers]_vars

\* ------------------------------------------------------------------ claims
IsAscending(ids) == \A i, j \in 1..Len(ids) : i < j => ids[i] < ids[j]

\* the command handed to the latest ExecuteOp
LastExecuted == nextId - 1

\* C2: after execute(cmd) with maximum depth >= 1, cmd.execute() was called
\* exactly once, cmd is the top of undoStack, the entries kept below it are the
\* previous entries in their order of execution (minus the oldest when the
\* limit was passed), redoStack is empty and one notification was fired.
C2_ExecuteContract ==
    (lastOp = "execute" /\ maxHistorySize >= 1) =>
        /\ calls = <<[method |-> "execute", id |-> LastExecuted]>>
        /\ undoStack # <<>>
        /\ Last(undoStack).id = LastExecuted
        /\ Front(undoStack) = IF Len(preUndo) + 1 > maxHistorySize THEN Tail(preUndo) ELSE preUndo
        /\ IsAscending(Ids(undoStack))
        /\ redoStack = <<>>
        /\ Len(notes) = 1

C2_Witness ==
    /\ lastOp = "execute"
    /\ maxHistorySize >= 2
    /\ Len(undoStack) >= 2
    /\ preRedo # <<>>

\* C3: undo() on an empty undoStack changes neither stack and calls no command
\* method; otherwise it removes exactly the top of undoStack, calls that
\* command's undo() once, pushes it on top of redoStack and notifies once.
C3_UndoContract ==
    lastOp = "undo" =>
        IF preUndo = <<>>
        THEN undoStack = <<>> /\ redoStack = preRedo /\ calls = <<>>
        ELSE /\ undoStack = Front(preUndo)
             /\ calls = <<[method |-> "undo", id |-> Last(preUndo).id]>>
             /\ redoStack = Append(preRedo, Last(preUndo))
             /\ Len(notes) = 1

C3_Witness ==
    /\ lastOp = "undo"
    /\ Len(preUndo) >= 2
    /\ preRedo # <<>>
    /\ Len(redoStack) = Len(preRedo) + 1

\* C4: redo() on an empty redoStack changes neither stack and calls no command
\* method; otherwise it removes exactly the top of redoStack (the most recently
\* undone command), calls its execute() once, pushes it on top of undoStack and
\* notifies once.
C4_RedoContract ==
    lastOp = "redo" =>
        IF preRedo = <<>>
        THEN redoStack = <<>> /\ undoStack = preUndo /\ calls = <<>>
        ELSE /\ redoStack = Front(preRedo)
             /\ calls = <<[method |-> "execute", id |-> Last(preRedo).id]>>
             /\ undoStack = Append(preUndo, Last(preRedo))
             /\ Len(notes) = 1

C4_Witness ==
    /\ lastOp = "redo"
    /\ Len(preRedo) >= 2
    /\ preUndo # <<>>
    /\ Len(undoStack) = Len(preUndo) + 1

\* C5: execute leaves redoStack empty (canRedo() is false), and a redo() that
\* immediately follows an execute changes neither stack, calls no command
\* method and fires no notification.
C5_RedoInvalidation ==
    /\ lastOp = "execute" => (redoStack = <<>> /\ ~canRedo)
    /\ (lastOp = "redo" /\ prevOp = "execute") =>
           /\ undoStack = preUndo
           /\ redoStack = <<>>
           /\ preRedo = <<>>
           /\ calls = <<>>
           /\ notes = <<>>
           /\ ~canRedo

\* a redo right after an execute that found undone commands on redoStack
C5_Witness ==
    /\ lastOp = "redo"
    /\ prevOp = "execute"
    /\ prevPreRedo # <<>>
    /\ undoStack # <<>>

\* C6: undoStack never holds more than maxHistorySize commands.
C6_StackBound == Len(undoStack) <= maxHistorySize

C6_Witness ==
    /\ maxHistorySize >= 2
    /\ Len(undoStack) = maxHistorySize
    /\ evicted # {}

\* C7: an execute that passes the limit discards exactly the oldest command;
\* a discarded command is on neither stack afterwards and no later undo or
\* redo calls a method of it.
C7_Eviction ==
    /\ evicted \cap (Range(Ids(undoStack)) \cup Range(Ids(redoStack))) = {}
    /\ lastOp \in {"undo", "redo"} => \A i \in 1..Len(calls) : calls[i].id \notin evicted
    /\ lastOp = "execute" =>
           LET pushed == Append(Ids(preUndo), LastExecuted)
           IN  IF Len(pushed) > maxHistorySize
               THEN /\ Ids(undoStack) = Tail(pushed)
                    /\ Head(pushed) \in evicted
                    /\ \A i \in 1..Len(pushed) : Head(pushed) <= pushed[i]
               ELSE Ids(undoStack) = pushed

\* an undo that finds a command after the limit has discarded one
C7_Witness ==
    /\ evicted # {}
    /\ maxHistorySize >= 2
    /\ lastOp = "undo"
    /\ calls # <<>>

\* C8: redoStack is non-empty only while the undo calls that found a command
\* since the last execute or clear outnumber the redo calls that found one;
\* redoStack grows only in an undo step, by the command that was on top of
\* undoStack.
C8_RedoProvenance ==
    /\ [](canRedo => undosSince > redosSince)
    /\ [](Len(redoStack) = undosSince - redosSince)
    /\ [][Len(redoStack') > Len(redoStack) =>
            /\ lastOp' = "undo"
            /\ undoStack # <<>>
            /\ redoStack' = Append(redoStack, Last(undoStack))
            /\ undoStack' = Front(undoStack)]_vars

C8_Witness ==
    /\ canRedo
    /\ redosSince >= 1
    /\ undosSince >= 2

\* C1: round-trip law. Every undo() that takes a command off undoStack leaves
\* the objects on the canvas, the layer map, the active selection and the
\* document origin as they were before the user action that executed the
\* command (preSnaps keeps that state for as long as nothing outside the
\* history has changed it since); N undo() calls after N commands thereby
\* return to the state before the sequence.
C1_RoundTrip ==
    [][(Len(undoStack') < Len(undoStack) /\ Last(preSnaps).valid)
          => Snap' = Last(preSnaps).snap]_vars

\* the command most recently applied (execute or redo) is a CropAction
CropApplied ==
    /\ undoStack # <<>>
    /\ Last(undoStack).type = "Crop"
    /\ calls = <<[method |-> "execute", id |-> Last(undoStack).id]>>

\* the command most recently undone is a CropAction
CropUndone ==
    /\ redoStack # <<>>
    /\ Last(redoStack).type = "Crop"
    /\ calls = <<[method |-> "undo", id |-> Last(redoStack).id]>>

\* C9: crop bookkeeping. After a Crop command with rectangle (x, y, w, h) is
\* applied (executed or redone) the canvas is w by h and the document origin
\* is the old origin plus (x, y); after it is undone the canvas has its old
\* size and the origin its old value.
C9_CropBookkeeping ==
    /\ CropApplied =>
          /\ canvasWidth = Last(undoStack).newWidth
          /\ canvasHeight = Last(undoStack).newHeight
          /\ documentOriginRef = Last(undoStack).newDocOrigin
    /\ CropUndone =>
          /\ canvasWidth = Last(redoStack).oldWidth
          /\ canvasHeight = Last(redoStack).oldHeight
          /\ documentOriginRef = Last(redoStack).oldDocOrigin

\* the selection rectangles on the canvas (the rectangle still being drawn is
\* not yet a selection)
SelectionRects == {o \in canvasObjects : objs[o].kind = "rect"} \ {tempSelection}

\* C10: the canvas holds at most one selection rectangle, and when it holds
\* one, that rectangle is the active selection (selectionRectRef).
C10_AtMostOneSelection ==
    /\ Cardinality(SelectionRects) <= 1
    /\ SelectionRects # {} => SelectionRects = {selectionRectRef}

\* C11: superseded selection is recoverable. When a CreateSelection command
\* whose gesture began while another selection was active is undone, the new
\* rectangle leaves the canvas and the previous rectangle is back on the
\* canvas as the active selection.
C11_SupersededRestored ==
    [][(/\ Len(undoStack') < Len(undoStack)
        /\ Last(undoStack).type = "CreateSelection"
        /\ Last(preSnaps).valid
        /\ Last(preSnaps).snap.sel # 0)
          => /\ Last(undoStack).selection \notin canvasObjects'
             /\ Last(preSnaps).snap.sel \in canvasObjects'
             /\ selectionRectRef' = Last(preSnaps).snap.sel]_vars

\* the command an undo step takes off undoStack / a redo step takes off redoStack
UndoStep == Len(undoStack') < Len(undoStack)
RedoStep == redoStack # <<>> /\ undoStack' = Append(undoStack, Last(redoStack))

\* a Crop command whose layer is gone: removed from the store, its binding
\* deleted and neither of its images on the canvas
LayerGone(a) ==
    /\ a.type = "Crop"
    /\ a.activeLayerId # 0
    /\ a.activeLayerId \notin LayerIds
    /\ a.activeLayerId \notin DOMAIN layerMapRef
    /\ {a.previousImage, a.newImage} \cap canvasObjects = {}

\* C14: missing target is a silent no-op. undo() and redo() of a Crop command
\* whose layer has been removed put none of that layer's images on the canvas
\* and create no binding for the removed layer id.
C14_MissingTargetNoOp ==
    [][/\ (UndoStep /\ LayerGone(Last(undoStack))) =>
              /\ Last(undoStack).activeLayerId \notin DOMAIN layerMapRef'
              /\ {Last(undoStack).previousImage, Last(undoStack).newImage}
                     \cap canvasObjects' = {}
       /\ (RedoStep /\ LayerGone(Last(redoStack))) =>
              /\ Last(redoStack).activeLayerId \notin DOMAIN layerMapRef'
              /\ {Last(redoStack).previousImage, Last(redoStack).newImage}
                     \cap canvasObjects' = {}]_vars

\* C15: image upload is reversible through history. The step that completes
\* an upload (a layer is added and its image put on the canvas) pushes one
\* command on undoStack, so that canUndo() is true afterwards.
C15_UploadRecorded ==
    [][Len(layers') > Len(layers) =>
          /\ Len(undoStack') = Len(undoStack) + 1
          /\ canUndo']_vars

\* the pointer-up that ends a draw gesture whose rectangle is below the minimum
RejectedGesture ==
    /\ pointerDown /\ ~pointerDown'
    /\ isDrawing /\ tempSelection # 0
    /\ \/ objs[tempSelection].width < MinSelectionSize
       \/ objs[tempSelection].height < MinSelectionSize

\* C19: a rejected below-minimum gesture mutates nothing. When a selection was
\* active at the pointer-down of the gesture, after the pointer-up that
\* rejects it the same rectangle is on the canvas, is the active selection and
\* is what the last selection data handed to the page describes.
C19_RejectedGestureKeepsSelection ==
    [][(/\ RejectedGesture
        /\ gestureSnap # <<>>
        /\ gestureSnap[1].pre.sel # 0)
          => /\ gestureSnap[1].pre.sel \in canvasObjects'
             /\ selectionRectRef' = gestureSnap[1].pre.sel
             /\ selectionData' # <<>>]_vars

\* the latest engine operation is one that fires the history-change callback:
\* an execute, a clear, or an undo / redo that found a command
Notifying ==
    \/ lastOp \in {"execute", "clear"}
    \/ lastOp = "undo" /\ preUndo # <<>>
    \/ lastOp = "redo" /\ preRedo # <<>>

\* C17: history notification accuracy. An operation that fires the callback
\* fires it once, with (canUndo, canRedo) as they are after the stacks were
\* updated; an undo or redo that finds no command fires nothing and changes
\* neither stack, so the pair delivered last always equals the current
\* canUndo() / canRedo().
C17_NotificationAccuracy ==
    /\ Notifying => notes = << <<canUndo, canRedo>> >>
    /\ (lastOp \in {"undo", "redo"} /\ ~Notifying) =>
           /\ notes = <<>>
           /\ undoStack = preUndo
           /\ redoStack = preRedo

\* an undo that emptied undoStack: the pair delivered differs from the one before
C17_Witness ==
    /\ lastOp = "undo"
    /\ Len(preUndo) = 1
    /\ notes = << <<FALSE, TRUE>> >>

\* C18: a draw gesture ending with a rectangle narrower or lower than
\* MinSelectionSize removes the rectangle from the canvas, makes no selection
\* and leaves both stacks as they were; a gesture ending with a rectangle of at
\* least MinSelectionSize both ways pushes exactly one CreateSelection entry
\* for it and makes it the active selection on the canvas
DrawEnds == pointerDown /\ isDrawing /\ tempSelection # 0 /\ ~pointerDown'
TooSmall(o) == o.width < MinSelectionSize \/ o.height < MinSelectionSize
C18_MinimumSize ==
    [][DrawEnds =>
        IF TooSmall(objs[tempSelection])
        THEN /\ canvasObjects' = canvasObjects \ {tempSelection}
             /\ selectionRectRef' = selectionRectRef
             /\ selectionRectRef' # tempSelection
             /\ undoStack' = undoStack
             /\ redoStack' = redoStack
        ELSE /\ Len(undoStack') = Len(undoStack) + 1
             /\ Front(undoStack') = undoStack
             /\ Last(undoStack').type = "CreateSelection"
             /\ Last(undoStack').selection = tempSelection
             /\ selectionRectRef' = tempSelection
             /\ tempSelection \in canvasObjects']_vars

\* a too-small rectangle has been discarded after an accepted one was recorded
C18_Witness ==
    /\ lastUserOp.op = "mouse:up"
    /\ \E id \in 1..(nextObj - 1) : id \notin DOMAIN objs
    /\ undoStack # <<>>
    /\ Last(undoStack).type = "CreateSelection"
    /\ selectionRectRef = 0
    /\ ~pointerDown

\* C20: a crop request with a non-positive width or height leaves the canvas
\* objects, the active selection, the layer bindings, the canvas dimensions,
\* the document origin and both stacks as they were
InvalidCrop(u) == u.op = "crop" /\ (u.args[1].width <= 0 \/ u.args[1].height <= 0)
C20_CropRejection ==
    [][InvalidCrop(lastUserOp') =>
        UNCHANGED <<canvasObjects, objs, selectionRectRef, selectionData, layerMapRef,
                    canvasWidth, canvasHeight, canvasSize, documentOriginRef,
                    undoStack, redoStack, cropPending>>]_vars

\* an invalid request was made while a selection was active and history non-empty
C20_Witness ==
    /\ InvalidCrop(lastUserOp)
    /\ selectionRectRef # 0
    /\ selectionRectRef \in canvasObjects
    /\ undoStack # <<>>
    /\ calls = <<[method |-> "execute", id |-> Last(undoStack).id]>>

\* C12: after upload, select tool, a selection drawn from (50,50) to (250,250),
\* create mask from selection, mask toggled off and three undos, the canvas
\* holds only the uploaded image, its layer has no mask and nothing is
\* selected, as right after the upload
ScriptDone == scriptStep = Len(MaskScript)
C12_MaskScenario ==
    ScriptDone =>
        /\ Len(layers) = 1
        /\ layers[1].mask = <<>>
        /\ layers[1].id \in DOMAIN layerMapRef
        /\ canvasObjects = {layerMapRef[layers[1].id]}
        /\ objs[layerMapRef[layers[1].id]] =
              NewImage(InitialCanvasSize.width \div 2, InitialCanvasSize.height \div 2)
        /\ selectionRectRef = 0
        /\ selectionData = <<>>
        /\ undoStack = <<>>

\* the script has run to its end: three commands were undone
C12_Witness ==
    /\ ScriptDone
    /\ Len(redoStack) = 3
    /\ redoStack[1].type = "ClearSelection"
    /\ redoStack[2].type = "SetMask"
    /\ redoStack[3].type = "CreateSelection"
    /\ redoStack[3].selection \in DOMAIN objs
    /\ objs[redoStack[3].selection].width = 200

\* C13: calling a command's execute() a second time right after the engine
\* executed it, or its undo() a second time right after the engine undid it,
\* leaves the canvas objects, the selection, the layer map and the layers'
\* masks as the first call left them
CalledAgain == Len(calls) = 1 /\ Len(calls') = 2
C13_CalledTwice ==
    [][CalledAgain => UNCHANGED <<canvasObjects, objs, selectionRectRef, layerMapRef, layers>>]_vars

\* C16: after every undo or redo, each layer's bound object on the canvas
\* has the layer's current visible and opacity, and the step changed no
\* layer's visible or opacity nor the layers' order
Untracked16(ls) == [i \in 1..Len(ls) |-> [id |-> ls[i].id, visible |-> ls[i].visible,
                                         opacity |-> ls[i].opacity]]
C16_UntrackedKept ==
    [][(UndoStep \/ RedoStep) =>
        /\ Untracked16(layers') = Untracked16(layers)
        /\ \A i \in 1..Len(layers') :
              (/\ layers'[i].id \in DOMAIN layerMapRef'
               /\ layerMapRef'[layers'[i].id] \in canvasObjects')
                 => /\ objs'[layerMapRef'[layers'[i].id]].visible = layers'[i].visible
                    /\ objs'[layerMapRef'[layers'[i].id]].opacity = layers'[i].opacity]_vars

\* C23: after clear() both stacks are empty, canUndo() and canRedo() are
\* false, no command's execute() or undo() was called and exactly one
\* notification was fired, carrying (false, false)
C23_Clear ==
    lastOp = "clear" =>
        /\ undoStack = <<>>
        /\ redoStack = <<>>
        /\ ~canUndo
        /\ ~canRedo
        /\ calls = <<>>
        /\ notes = << <<FALSE, FALSE>> >>

\* clear() was called with commands on both stacks
C23_Witness ==
    /\ lastOp = "clear"
    /\ Len(preUndo) >= 1
    /\ Len(preRedo) >= 1
    /\ undoStack = <<>>
    /\ redoStack = <<>>

\* C21: when the command's execute() throws inside execute(cmd), the caller
\* gets the exception, the command is on neither stack and both stacks are
\* as they were before the call
C21_FailedNotPushed ==
    lastOp = "execute:threw" =>
        /\ calls = <<[method |-> "execute", id |-> nextId - 1]>>
        /\ (nextId - 1) \notin Range(Ids(undoStack)) \cup Range(Ids(redoStack))
        /\ undoStack = preUndo
        /\ redoStack = preRedo

\* a command failed in execute() while both stacks held commands
C21_Witness ==
    /\ lastOp = "execute:threw"
    /\ undoStack # <<>>
    /\ redoStack # <<>>

\* C22: when the command's undo() throws inside undo(), the command has left
\* undoStack, redoStack is as before and the other entries keep their places;
\* when its execute() throws inside redo(), the same with the stacks exchanged
C22_FailedReplay ==
    /\ lastOp = "undo:threw" =>
          /\ preUndo # <<>>
          /\ calls = <<[method |-> "undo", id |-> Last(preUndo).id]>>
          /\ undoStack = Front(preUndo)
          /\ redoStack = preRedo
    /\ lastOp = "redo:threw" =>
          /\ preRedo # <<>>
          /\ calls = <<[method |-> "execute", id |-> Last(preRedo).id]>>
          /\ redoStack = Front(preRedo)
          /\ undoStack = preUndo

\* a command failed in undo() with other commands below it and on redoStack
C22_Witness ==
    /\ lastOp = "undo:threw"
    /\ Len(preUndo) >= 2
    /\ redoStack # <<>>

\* C24: when the engine applies (executes or redoes) a Crop command made with
\* an active image, afterwards the selection rectangle and the old image are
\* off the canvas, the cropped image is on it and the active layer is bound
\* to the cropped image; when it reverses one, the cropped image is off the
\* canvas, the old image is on it and bound to the active layer, and the
\* selection rectangle is on the canvas, is the active selection and has the
\* geometry it had
SwapApplied(a) ==
    /\ a.type = "Crop" /\ a.previousImage # 0
    /\ undoStack' # undoStack
    /\ calls' = <<[method |-> "execute", id |-> a.id]>>
SwapReversed(a) ==
    /\ a.type = "Crop" /\ a.previousImage # 0
    /\ redoStack' # redoStack
    /\ calls' = <<[method |-> "undo", id |-> a.id]>>
BoundTo(img, layerId, map) == layerId # 0 /\ layerId \in DOMAIN map /\ map[layerId] = img
C24_CropSwap ==
    [][/\ (undoStack' # <<>> /\ SwapApplied(Last(undoStack'))) =>
            LET a == Last(undoStack')
            IN  /\ a.selection \notin canvasObjects'
                /\ a.previousImage \notin canvasObjects'
                /\ a.newImage \in canvasObjects'
                /\ BoundTo(a.newImage, activeLayerId', layerMapRef')
       /\ (redoStack' # <<>> /\ SwapReversed(Last(redoStack'))) =>
            LET a == Last(redoStack')
            IN  /\ a.newImage \notin canvasObjects'
                /\ a.previousImage \in canvasObjects'
                /\ BoundTo(a.previousImage, activeLayerId', layerMapRef')
                /\ a.selection \in canvasObjects'
                /\ selectionRectRef' = a.selection
                /\ objs'[a.selection] = objs[a.selection]]_vars

\* ---------------------------------------------------------------------------
\* Cropping beside another layer: the editor as it is after a first upload.
\* The layer and the image of that upload carry identities beyond those the
\* behaviour hands out.
BackgroundLayer == MaxLayers + 1
BackgroundImage == MaxObjs + 1

InitSiblings ==
    /\ undoStack = <<>>
    /\ redoStack = <<>>
    /\ maxHistorySize = DefaultHistorySize
    /\ calls = <<>>
    /\ notes = <<>>
    /\ nextId = 1
    /\ lastOp = "new"
    /\ prevOp = "new"
    /\ preUndo = <<>>
    /\ preRedo = <<>>
    /\ prevPreRedo = <<>>
    /\ undosSince = 0
    /\ redosSince = 0
    /\ evicted = {}
    /\ layers = <<[id |-> BackgroundLayer, visible |-> TRUE, opacity |-> 100, mask |-> <<>>]>>
    /\ activeLayerId = BackgroundLayer
    /\ activeTool = "move"
    /\ nextLayer = 1
    /\ canvasObjects = {BackgroundImage}
    /\ objs = MapSet(<<>>, BackgroundImage, NewImage(InitialCanvasSize.width \div 2,
                                                     InitialCanvasSize.height \div 2))
    /\ nextObj = 1
    /\ canvasWidth = InitialCanvasSize.width
    /\ canvasHeight = InitialCanvasSize.height
    /\ viewportTransform = IdentityTransform
    /\ selectionRectRef = 0
    /\ selectionBeforeModifyRef = <<>>
    /\ layerMapRef = MapSet(<<>>, BackgroundLayer, BackgroundImage)
    /\ documentOriginRef = [x |-> 0, y |-> 0]
    /\ canvasSize = <<>>
    /\ isDrawing = FALSE
    /\ startX = 0
    /\ startY = 0
    /\ tempSelection = 0
    /\ pointerDown = FALSE
    /\ dragTarget = 0
    /\ cropPending = <<>>
    /\ selectionData = <<>>
    /\ preSnaps = <<>>
    /\ gestureSnap = <<>>
    /\ maskCall = "idle"
    /\ lastUserOp = [op |-> "none", args |-> <<>>]
    /\ scriptStep = 0
    /\ NoPixels

\* one drag from SiblingAnchor to SiblingCorner, cropped, undone, redone
SiblingAnchor == <<100, 50>>
SiblingCorner == <<500, 350>>

NextSiblings ==
    \/ ImageLoaded /\ Observe("upload", <<>>)
    \/ SetActiveTool("crop") /\ Observe("tool", <<"crop">>)
    \/ MouseDown(SiblingAnchor) /\ Observe("mouse:down", <<SiblingAnchor>>)
    \/ MouseMove(SiblingCorner) /\ Observe("mouse:move", <<SiblingCorner>>)
    \/ MouseUpDraw /\ Observe("mouse:up", <<>>)
    \/ \E a \in CropArguments : CropRequest(a) /\ Observe("crop", <<a>>)
    \/ CropFinish /\ Observe("crop:resumed", <<>>)
    \/ Undo /\ Observe("undo", <<>>)
    \/ Redo /\ Observe("redo", <<>>)

SpecSiblings == InitSiblings /\ [][NextSiblings]_vars

\* C25: a step that applies, undoes or redoes a Crop command leaves the
\* viewport transform as it was, and leaves left and top of every drawable other
\* than the command's two images and its selection rectangle as they were
CropStep(a) ==
    /\ a.type = "Crop"
    /\ calls' # <<>>
    /\ calls'[1].id = a.id
Swapped(a) == {a.previousImage, a.newImage, a.selection}
SamePlace(o, os, ps) == o \in DOMAIN ps /\ ps[o].left = os[o].left /\ ps[o].top = os[o].top
CropFrame(a, os, ps, vt, vtp) ==
    /\ vtp = vt
    /\ \A o \in DOMAIN os \ Swapped(a) : SamePlace(o, os, ps)
C25_CropFrame ==
    [][/\ (undoStack' # <<>> /\ undoStack' # undoStack /\ CropStep(Last(undoStack'))) =>
            CropFrame(Last(undoStack'), objs, objs', viewportTransform, viewportTransform')
       /\ (redoStack' # <<>> /\ redoStack' # redoStack /\ CropStep(Last(redoStack'))) =>
            CropFrame(Last(redoStack'), objs, objs', viewportTransform, viewportTransform')]_vars

\* a crop was applied, undone and applied again beside another layer's image,
\* which is on the canvas
C25_Witness ==
    /\ lastUserOp.op = "redo"
    /\ undoStack # <<>> /\ Last(undoStack).type = "Crop"
    /\ Last(undoStack).newImage # 0
    /\ calls = <<[method |-> "execute", id |-> Last(undoStack).id]>>
    /\ \E o \in canvasObjects \ Swapped(Last(undoStack)) : objs[o].kind = "image"

\* C26: after every pointer-move while Drawing, with the anchor (startX, startY)
\* and the pointer p, the temporary rectangle has left = min(startX, p.x),
\* top = min(startY, p.y), width = |p.x - startX| and height = |p.y - startY|
Least(a, b) == IF a < b THEN a ELSE b
Distance(a, b) == IF a < b THEN b - a ELSE a - b
Normalized(rect, ax, ay, p) ==
    /\ rect.left = Least(ax, p[1])
    /\ rect.top = Least(ay, p[2])
    /\ rect.width = Distance(p[1], ax)
    /\ rect.height = Distance(p[2], ay)
MovedWhileDrawing == lastUserOp.op = "mouse:move" /\ isDrawing /\ tempSelection # 0
C26_MoveNormalized ==
    MovedWhileDrawing => Normalized(objs[tempSelection], startX, startY, lastUserOp.args[1])

\* C27: while the active tool is move no step starts a selection draw and no
\* CreateSelection command is recorded; a step that records one is taken with
\* tool select or crop and with the active layer bound to a drawable
StartsDraw == ~isDrawing /\ isDrawing'
RecordsCreateSelection ==
    /\ nextId' = nextId + 1
    /\ undoStack' # <<>>
    /\ Last(undoStack').id = nextId
    /\ Last(undoStack').type = "CreateSelection"
C27_ToolGating ==
    [][/\ activeTool = "move" => ~StartsDraw /\ ~RecordsCreateSelection
       /\ (StartsDraw \/ RecordsCreateSelection) =>
            activeTool \in {"select", "crop"} /\ getActiveImageObject # 0]_vars

\* the part of C27 about pointer-down alone
T27_DownGated == [][StartsDraw => activeTool \in {"select", "crop"} /\ getActiveImageObject # 0]_vars

\* ---------------------------------------------------------------------------
\* an observed session of drawing a selection and dragging or resizing it
\* pointer positions of the session: two opposite corners of a selection
ModifyPoints == {<<100, 50>>, <<500, 350>>}

NextModify ==
    \/ ImageLoaded /\ Observe("upload", <<>>)
    \/ \E tool \in {"move", "select", "crop"} : SetActiveTool(tool) /\ Observe("tool", <<tool>>)
    \/ \E p \in ModifyPoints : MouseDown(p) /\ Observe("mouse:down", <<p>>)
    \/ \E p \in ModifyPoints : MouseMove(p) /\ Observe("mouse:move", <<p>>)
    \/ MouseUpDraw /\ Observe("mouse:up", <<>>)
    \/ MouseUpDrag /\ Observe("mouse:up", <<>>)
    \/ MouseUpIdle /\ Observe("mouse:up", <<>>)
    \/ Undo /\ Observe("undo", <<>>)
    \/ Redo /\ Observe("redo", <<>>)

SpecModify == Init /\ [][NextModify]_vars

\* C28: with tool select or crop and the active layer bound to a drawable, a
\* pointer-down on the selection rectangle sets the pending modify capture to
\* the rectangle's geometry, leaves Drawing as it was (off) and the selection
\* in place; any other pointer-down takes the selection off the canvas, enters
\* Drawing and records the pointer as the anchor; every pointer-up leaves the
\* controller not Drawing
PointerDown(u) == u.op = "mouse:down"
PointerUp(u) == u.op = "mouse:up"
Enabled28 == activeTool \in {"select", "crop"} /\ getActiveImageObject # 0
OnSelection(p) ==
    /\ selectionRectRef # 0
    /\ selectionRectRef \in canvasObjects
    /\ Inside(p, objs[selectionRectRef])
C28_DownDispatch ==
    [][/\ (PointerDown(lastUserOp') /\ Enabled28 /\ OnSelection(lastUserOp'.args[1])) =>
            /\ selectionBeforeModifyRef' = <<Geometry(objs[selectionRectRef])>>
            /\ ~isDrawing /\ ~isDrawing'
            /\ selectionRectRef' = selectionRectRef
            /\ selectionRectRef \in canvasObjects'
            /\ objs'[selectionRectRef] = objs[selectionRectRef]
       /\ (PointerDown(lastUserOp') /\ Enabled28 /\ ~OnSelection(lastUserOp'.args[1])) =>
            /\ selectionRectRef \notin canvasObjects'
            /\ selectionRectRef' = 0
            /\ isDrawing'
            /\ startX' = lastUserOp'.args[1][1]
            /\ startY' = lastUserOp'.args[1][2]
       /\ PointerUp(lastUserOp') => ~isDrawing']_vars

\* a press on the selection was captured and the pointer released again, after
\* an earlier gesture drew that selection
C28_Witness ==
    /\ lastUserOp.op = "mouse:up"
    /\ selectionRectRef # 0
    /\ selectionBeforeModifyRef = <<Geometry(objs[selectionRectRef])>>
    /\ ~isDrawing

\* C29: an object:modified event on the selection with a capture pending
\* executes one ModifySelection command from the captured geometry to the
\* selection's current one and clears the capture; with no capture pending it
\* records nothing; undoing such a command gives the selection the captured
\* geometry, redoing it the modified one
ObjectModified ==
    /\ PointerUp(lastUserOp')
    /\ dragTarget # 0 /\ dragTarget = selectionRectRef
    /\ ~(isDrawing /\ tempSelection # 0)
    /\ objs'[dragTarget] # objs[dragTarget]
ModifyExecuted ==
    /\ undoStack' = Append(undoStack,
                           ModifySelectionAction(nextId, selectionRectRef,
                                                 selectionBeforeModifyRef[1],
                                                 Geometry(objs'[selectionRectRef])))
    /\ calls' = <<[method |-> "execute", id |-> nextId]>>
    /\ selectionBeforeModifyRef' = <<>>
Replayed(method, stack) ==
    /\ stack # <<>>
    /\ Last(stack).type = "ModifySelection"
    /\ calls' = <<[method |-> method, id |-> Last(stack).id]>>
C29_ModifySelection ==
    [][/\ (ObjectModified /\ selectionBeforeModifyRef # <<>>) => ModifyExecuted
       /\ (ObjectModified /\ selectionBeforeModifyRef = <<>>) =>
            UNCHANGED <<undoStack, redoStack, calls>>
       /\ (lastUserOp'.op = "undo" /\ Replayed("undo", undoStack)) =>
            Geometry(objs'[Last(undoStack).selection]) = Last(undoStack).previousState
       /\ (lastUserOp'.op = "redo" /\ Replayed("execute", redoStack)) =>
            Geometry(objs'[Last(redoStack).selection]) = Last(redoStack).newState]_vars

\* a selection was dragged, the drag undone and redone: it has the geometry the
\* drag gave it, which is not the captured one
C29_Witness ==
    /\ lastUserOp.op = "redo"
    /\ undoStack # <<>>
    /\ Last(undoStack).type = "ModifySelection"
    /\ Last(undoStack).previousState # Last(undoStack).newState
    /\ Geometry(objs[Last(undoStack).selection]) = Last(undoStack).newState

\* the selection was dragged with no capture pending and nothing was recorded
T29_Uncaptured ==
    /\ lastUserOp.op = "mouse:up"
    /\ selectionRectRef # 0
    /\ selectionBeforeModifyRef = <<>>
    /\ objs[selectionRectRef].scaleX = 2
    /\ Len(undoStack) = 1
    /\ Last(undoStack).type = "CreateSelection"

\* ---------------------------------------------------------------------------
\* Mask operations: createMask, invertMask and featherMask of the handle

\* a feather amount: <<>> when none is given, else <<pixels>>
FeatherAmounts == {<<>>, <<0>>, <<3>>}

\* `!options.featherAmount`
NoAmount(amount) == amount = <<>> \/ amount[1] = 0

\* generateMaskData that takes a feather amount of 0 as given
generateMaskDataFor_zero(operation, amount) ==
    IF activeLayerId = 0 THEN <<>>
    ELSE IF operation = "selection" THEN generateMaskData
    ELSE IF operation = "invert"
    THEN IF activeMaskDataUrl = <<>> THEN <<>>
         ELSE <<[filter |-> "difference", amount |-> 0, source |-> activeMaskDataUrl[1]]>>
    ELSE IF activeMaskDataUrl = <<>> \/ amount = <<>> THEN <<>>
         ELSE <<[filter |-> "blur", amount |-> amount[1], source |-> activeMaskDataUrl[1]]>>

\* generateMaskData(operation, {featherAmount}): <<>> for null, else the image,
\* which for invert and feather is made from the active layer's mask
generateMaskDataFor(operation, amount) ==
    IF activeLayerId = 0 THEN <<>>
    ELSE IF operation = "selection" THEN generateMaskData
    ELSE IF operation = "invert"
    THEN IF activeMaskDataUrl = <<>> THEN <<>>
         ELSE <<[filter |-> "difference", amount |-> 0, source |-> activeMaskDataUrl[1]]>>
    ELSE IF activeMaskDataUrl = <<>> \/ NoAmount(amount) THEN <<>>
         ELSE <<[filter |-> "blur", amount |-> amount[1], source |-> activeMaskDataUrl[1]]>>

\* applyMaskAction(data) after `if (data)`
applyMaskAction(data) ==
    IF data = <<>>
    THEN UNCHANGED <<histVars, nextId, worldVars, preSnaps>>
    ELSE /\ nextId < MaxCmds
         /\ execute(SetMaskAction(nextId, activeLayerId, activeMaskDataUrl, data), World)
         /\ nextId' = nextId + 1
         /\ preSnaps' = Pushed([valid |-> TRUE, snap |-> Snap])

\* the handle's invertMask()
InvertMask ==
    /\ applyMaskAction(generateMaskDataFor("invert", <<>>))
    /\ UNCHANGED <<histGhost, storeVars, sizeVars, ctrlVars, nextObj, cropPending, gestureSnap>>

\* the handle's featherMask(amount)
FeatherMask(amount) ==
    /\ applyMaskAction(generateMaskDataFor("feather", amount))
    /\ UNCHANGED <<histGhost, storeVars, sizeVars, ctrlVars, nextObj, cropPending, gestureSnap>>

\* noting a user operation
Seen(op, args) ==
    /\ lastUserOp' = [op |-> op, args |-> args]
    /\ UNCHANGED <<scriptStep, pixelVars>>

NextMaskOps ==
    \/ Idle /\ ImageLoaded /\ Seen("upload", <<>>)
    \/ Idle /\ SetActiveTool("select") /\ Seen("tool", <<"select">>)
    \/ Idle /\ MouseDown(<<50, 50>>) /\ Seen("mouse:down", << <<50, 50>> >>)
    \/ Idle /\ MouseMove(<<250, 250>>) /\ Seen("mouse:move", << <<250, 250>> >>)
    \/ Idle /\ MouseUpDraw /\ Seen("mouse:up", <<>>)
    \/ CreateMaskApply /\ Seen("createMask", <<>>)
    \/ CreateMaskRejected /\ Seen("createMask", <<>>)
    \/ CreateMaskResume /\ Seen("createMask:resumed", <<>>)
    \/ Idle /\ InvertMask /\ Seen("invertMask", <<>>)
    \/ \E amount \in FeatherAmounts : Idle /\ FeatherMask(amount) /\ Seen("featherMask", amount)
    \/ Idle /\ Undo /\ Seen("undo", <<>>)
    \/ Idle /\ Redo /\ Seen("redo", <<>>)

SpecMaskOps == Init /\ [][NextMaskOps]_vars

\* C30: createMask with no active selection, invertMask with no mask on the
\* active layer, and featherMask with no mask on the active layer or with no
\* amount or amount 0, get null from generateMaskData, execute no command and
\* leave the layers' masks and both history stacks as they were
NoMask == activeMaskDataUrl = <<>>
NullCase(u) ==
    \/ u.op = "createMask" /\ selectionRectRef = 0
    \/ u.op = "invertMask" /\ NoMask
    \/ u.op = "featherMask" /\ (NoMask \/ NoAmount(u.args))
Generated(u) ==
    generateMaskDataFor(IF u.op = "createMask" THEN "selection"
                        ELSE IF u.op = "invertMask" THEN "invert" ELSE "feather", u.args)
Masks(ls) == [i \in 1..Len(ls) |-> ls[i].mask]
C30_NullCases ==
    [][NullCase(lastUserOp') =>
        /\ Generated(lastUserOp') = <<>>
        /\ Masks(layers') = Masks(layers)
        /\ UNCHANGED <<undoStack, redoStack, calls, maskCall>>]_vars

\* featherMask(0) was called on a layer that has a mask, with commands on both
\* stacks
C30_Witness ==
    /\ lastUserOp = [op |-> "featherMask", args |-> <<0>>]
    /\ ~NoMask
    /\ undoStack # <<>> /\ redoStack # <<>>

\* invertMask was called on a layer without a mask, with a command to undo
T30_InvertNoMask == lastUserOp.op = "invertMask" /\ NoMask /\ undoStack # <<>>
\* createMask was called with no selection, with a command to undo
T30_CreateNoSelection == lastUserOp.op = "createMask" /\ selectionRectRef = 0 /\ undoStack # <<>>
\* a mask was inverted and the result feathered
T30_Feathered ==
    /\ ~NoMask
    /\ activeMaskDataUrl[1].filter = "blur"
    /\ activeMaskDataUrl[1].source.filter = "difference"

\* ---------------------------------------------------------------------------
\* The invert operation on pixels: generateMaskData's case 'invert' draws the
\* current mask on a new canvas filled black and fills it with white under
\* globalCompositeOperation 'difference'

\* pixels sampled from a mask image of the canvas's size, and luminance values
SamplePixels == {<<0, 0>>, <<1, 0>>, <<0, 1>>}
Levels == {0, 1, 128, 254, 255}
Black == 0
White == 255
MaskBuffers == [SamplePixels -> Levels]

\* drawImage of an opaque image, composite 'source-over': the image's pixel
sourceOver(backdrop, source) == source

\* composite 'difference' of opaque pixels: |backdrop - source|
blendDifference(backdrop, source) ==
    IF backdrop < source THEN source - backdrop ELSE backdrop - source

\* an invert that thresholds: bright pixels to black, dark ones to white
invertPixels_threshold(buffer) ==
    [p \in DOMAIN buffer |-> IF sourceOver(Black, buffer[p]) >= 128 THEN Black ELSE White]

\* the pixels of the canvas generateMaskData exports for 'invert'
invertPixels(buffer) ==
    [p \in DOMAIN buffer |-> blendDifference(sourceOver(Black, buffer[p]), White)]

InitInvert ==
    /\ undoStack = <<>>
    /\ redoStack = <<>>
    /\ maxHistorySize = DefaultHistorySize
    /\ calls = <<>>
    /\ notes = <<>>
    /\ nextId = 1
    /\ lastOp = "new"
    /\ prevOp = "new"
    /\ preUndo = <<>>
    /\ preRedo = <<>>
    /\ prevPreRedo = <<>>
    /\ undosSince = 0
    /\ redosSince = 0
    /\ evicted = {}
    /\ InitCanvas
    /\ pixelsIn \in MaskBuffers
    /\ pixelsOut = <<>>
    /\ maskPending = <<>>

\* generateMaskData('invert') on the mask image pixelsIn: a new canvas
InvertPixels ==
    /\ pixelsOut' = <<invertPixels(pixelsIn)>>
    /\ UNCHANGED <<pixelsIn, maskPending, histVars, ghostVars, editorVars, maskCall, lastUserOp,
                   scriptStep>>

\* the generated image becomes the layer's mask, which the next invert draws
InstallPixels ==
    /\ pixelsOut # <<>>
    /\ pixelsIn' = pixelsOut[1]
    /\ pixelsOut' = <<>>
    /\ UNCHANGED <<maskPending, histVars, ghostVars, editorVars, maskCall, lastUserOp,
                   scriptStep>>

NextInvert == InvertPixels \/ InstallPixels

SpecInvert == InitInvert /\ [][NextInvert]_vars

\* C31: inverting the inverted mask gives the original mask pixel for pixel;
\* invert maps white to black and black to white; the generated buffer is a
\* new one and the buffer drawn keeps its pixels
C31_InvertSelfInverse ==
    [][pixelsOut' # <<>> =>
        /\ invertPixels(pixelsOut'[1]) = pixelsIn
        /\ \A p \in SamplePixels :
            /\ pixelsIn[p] = White => pixelsOut'[1][p] = Black
            /\ pixelsIn[p] = Black => pixelsOut'[1][p] = White
        /\ pixelsIn' = pixelsIn]_vars

\* a mask with a white, a black and a grey pixel has been inverted
C31_Witness ==
    /\ pixelsOut # <<>>
    /\ \E p, q, r \in SamplePixels :
        /\ pixelsIn[p] = White /\ pixelsIn[q] = Black /\ pixelsIn[r] = 128
        /\ pixelsOut[1][r] = 127

\* ---------------------------------------------------------------------------
\* Toggling masks: the editor with two layers, each with no mask, a visible
\* mask or a hidden one
SecondLayer == MaxLayers + 2
SecondImage == MaxObjs + 2

\* the mask image createMask makes of a selection from (50,50) to (250,250)
SampleMask ==
    [width |-> InitialCanvasSize.width, height |-> InitialCanvasSize.height,
     left |-> 50, top |-> 50, w |-> 200, h |-> 200]

MaskStates == {<<>>, <<[dataUrl |-> SampleMask, visible |-> TRUE]>>,
                     <<[dataUrl |-> SampleMask, visible |-> FALSE]>>}

InitToggle ==
    /\ undoStack = <<>>
    /\ redoStack = <<>>
    /\ maxHistorySize = DefaultHistorySize
    /\ calls = <<>>
    /\ notes = <<>>
    /\ nextId = 1
    /\ lastOp = "new"
    /\ prevOp = "new"
    /\ preUndo = <<>>
    /\ preRedo = <<>>
    /\ prevPreRedo = <<>>
    /\ undosSince = 0
    /\ redosSince = 0
    /\ evicted = {}
    /\ \E m1, m2 \in MaskStates :
         layers = <<[id |-> SecondLayer, visible |-> TRUE, opacity |-> 100, mask |-> m1],
                    [id |-> BackgroundLayer, visible |-> TRUE, opacity |-> 100, mask |-> m2]>>
    /\ activeLayerId = SecondLayer
    /\ activeTool = "move"
    /\ nextLayer = 1
    /\ canvasObjects = {BackgroundImage, SecondImage}
    /\ layerMapRef = MapSet(MapSet(<<>>, BackgroundLayer, BackgroundImage),
                            SecondLayer, SecondImage)
    /\ objs = processLayers(layers, layerMapRef,
                            MapSet(MapSet(<<>>, BackgroundImage,
                                          NewImage(InitialCanvasSize.width \div 2,
                                                   InitialCanvasSize.height \div 2)),
                                   SecondImage,
                                   NewImage(InitialCanvasSize.width \div 2,
                                            InitialCanvasSize.height \div 2)))
    /\ nextObj = 1
    /\ canvasWidth = InitialCanvasSize.width
    /\ canvasHeight = InitialCanvasSize.height
    /\ viewportTransform = IdentityTransform
    /\ selectionRectRef = 0
    /\ selectionBeforeModifyRef = <<>>
    /\ documentOriginRef = [x |-> 0, y |-> 0]
    /\ canvasSize = <<>>
    /\ isDrawing = FALSE
    /\ startX = 0
    /\ startY = 0
    /\ tempSelection = 0
    /\ pointerDown = FALSE
    /\ dragTarget = 0
    /\ cropPending = <<>>
    /\ selectionData = <<>>
    /\ preSnaps = <<>>
    /\ gestureSnap = <<>>
    /\ maskCall = "idle"
    /\ lastUserOp = [op |-> "none", args |-> <<>>]
    /\ scriptStep = 0
    /\ NoPixels

\* store.toggleLayerMask(id) called on any layer, then the layers effect
ToggleLayerMask(id) == StoreUpdate(toggleLayerMask(layers, id))

\* a client executing new ToggleMaskAction(id, toggleLayerMask)
ExecuteToggleMaskOf(id) ==
    /\ nextId <= MaxActions
    /\ execute(ToggleMaskAction(nextId, id), World)
    /\ nextId' = nextId + 1
    /\ preSnaps' = Pushed([valid |-> TRUE, snap |-> Snap])
    /\ UNCHANGED <<histGhost, storeVars, sizeVars, ctrlVars, nextObj, cropPending, gestureSnap>>

NextToggle ==
    \/ \E id \in LayerIds : Idle /\ ToggleLayerMask(id) /\ Seen("toggleLayerMask", <<id>>)
    \/ \E id \in LayerIds : Idle /\ ExecuteToggleMaskOf(id) /\ Seen("execute", <<id>>)
    \/ Idle /\ Undo /\ Seen("undo", <<>>)
    \/ Idle /\ Redo /\ Seen("redo", <<>>)

SpecToggle == InitToggle /\ [][NextToggle]_vars

\* C32: a toggle of layer id's mask, by the store or by a ToggleMask command
\* applied or reversed, flips the visible flag of that layer's mask and nothing
\* else: the mask data, the layer's other fields and the other layers stay, a
\* layer without a mask stays without one, no mask appears or disappears; and
\* reversing the command right after applying it gives back the layers
\* there were
Toggled(id) ==
    \/ lastUserOp'.op = "toggleLayerMask" /\ lastUserOp'.args = <<id>>
    \/ /\ lastUserOp'.op \in {"execute", "redo"}
       /\ undoStack' # <<>> /\ undoStack' # undoStack
       /\ Last(undoStack').type = "ToggleMask" /\ Last(undoStack').layerId = id
    \/ /\ lastUserOp'.op = "undo"
       /\ undoStack # <<>>
       /\ Last(undoStack).type = "ToggleMask" /\ Last(undoStack).layerId = id
FlipOnly(old, new) ==
    IF old.mask = <<>> THEN new = old
    ELSE /\ new.mask # <<>>
         /\ new.mask[1].dataUrl = old.mask[1].dataUrl
         /\ new.mask[1].visible = ~old.mask[1].visible
         /\ [new EXCEPT !.mask = old.mask] = old
C32_MaskToggle ==
    [][\A id \in LayerIds :
        Toggled(id) =>
          /\ Len(layers') = Len(layers)
          /\ \A i \in 1..Len(layers) :
               IF layers[i].id = id THEN FlipOnly(layers[i], layers'[i])
               ELSE layers'[i] = layers[i]
          /\ (lastUserOp'.op = "execute" =>
                UndoOf(Last(undoStack'), World').layers = layers)]_vars

\* the hidden mask of the second layer was shown by a ToggleMask command and
\* hidden again by its undo, beside a layer that has no mask
C32_Witness ==
    /\ lastUserOp.op = "undo"
    /\ redoStack # <<>>
    /\ Last(redoStack).type = "ToggleMask" /\ Last(redoStack).layerId = SecondLayer
    /\ layers[1].mask = <<[dataUrl |-> SampleMask, visible |-> FALSE]>>
    /\ layers[2].mask = <<>>

\* the store's toggle was called on a layer without a mask
T32_NoMaskToggled ==
    /\ lastUserOp = [op |-> "toggleLayerMask", args |-> <<BackgroundLayer>>]
    /\ layers[2].mask = <<>>

\* C33: with maximum depth maxHistorySize >= 0, in every state reached by
\* execute, undo, redo and clear the two stacks together hold at most
\* maxHistorySize commands
C33_CombinedDepth == Len(undoStack) + Len(redoStack) <= maxHistorySize

\* a redo has just filled undoStack up to the largest depth again, after the
\* limit had already discarded a command
C33_Witness ==
    /\ lastOp = "redo"
    /\ preRedo # <<>>
    /\ maxHistorySize = MaxDepth
    /\ Len(undoStack) = maxHistorySize
    /\ evicted # {}

\* C34: after every execute, undo and redo of a CreateSelection,
\* ModifySelection, ClearSelection or Crop command, the selection data last
\* delivered to onSelectionChange is non-null exactly when a selection
\* rectangle is the current selection and on the canvas, and when non-null it
\* is that rectangle's position and effective extent
SelectionCommand(a) == a.type \in {"CreateSelection", "ModifySelection", "ClearSelection", "Crop"}
EngineRan(method, stack, stackAfter) ==
    /\ stackAfter # <<>>
    /\ stackAfter # stack
    /\ SelectionCommand(Last(stackAfter))
    /\ calls' = <<[method |-> method, id |-> Last(stackAfter).id]>>
Delivered(sel, onCanvas, os, data) ==
    /\ data # <<>> <=> (sel # 0 /\ sel \in onCanvas)
    /\ data # <<>> =>
         data[1] = [x |-> os[sel].left, y |-> os[sel].top,
                    width |-> os[sel].width * os[sel].scaleX,
                    height |-> os[sel].height * os[sel].scaleY]
C34_SelectionNotified ==
    [][(EngineRan("execute", undoStack, undoStack') \/ EngineRan("undo", redoStack, redoStack'))
        => Delivered(selectionRectRef', canvasObjects', objs', selectionData')]_vars

\* ---------------------------------------------------------------------------
\* Keyboard shortcuts: one keydown event on window runs the handler Canvas
\* registered and then the one the page registered

\* the engine and the world it acts on, as a value
Engine ==
    [undoStack |-> undoStack, redoStack |-> redoStack, world |-> World,
     calls |-> <<>>, notes |-> <<>>]

\* HistoryManager.undo() on that value
undoIn(h) ==
    IF Len(h.undoStack) > 0
    THEN LET action == Last(h.undoStack)
         IN  [undoStack |-> Front(h.undoStack),
              redoStack |-> Append(h.redoStack, action),
              world |-> UndoOf(action, h.world),
              calls |-> Append(h.calls, [method |-> "undo", id |-> action.id]),
              notes |-> Append(h.notes, <<Len(h.undoStack) > 1, TRUE>>)]
    ELSE h

\* HistoryManager.redo() on that value
redoIn(h) ==
    IF Len(h.redoStack) > 0
    THEN LET action == Last(h.redoStack)
         IN  [undoStack |-> Append(h.undoStack, action),
              redoStack |-> Front(h.redoStack),
              world |-> ExecuteOf(action, h.world),
              calls |-> Append(h.calls, [method |-> "execute", id |-> action.id]),
              notes |-> Append(h.notes, <<TRUE, Len(h.redoStack) > 1>>)]
    ELSE h

ShortcutKeys == {"ctrl+z", "ctrl+shift+z", "ctrl+y"}

\* Canvas's handleKeyDown
canvasKeyDown(key, h) ==
    IF key \in {"ctrl+y", "ctrl+shift+z"} THEN redoIn(h)
    ELSE IF key = "ctrl+z" THEN undoIn(h)
    ELSE h

\* the page's handleKeyDown, focus outside text inputs
pageKeyDown(key, h) ==
    IF key = "ctrl+z" THEN undoIn(h)
    ELSE IF key = "ctrl+shift+z" THEN redoIn(h)
    ELSE h

\* a keydown event dispatched to both listeners
KeyDown(key) ==
    /\ LET h == pageKeyDown(key, canvasKeyDown(key, Engine))
       IN  /\ undoStack' = h.undoStack
           /\ redoStack' = h.redoStack
           /\ SetWorld(h.world)
           /\ calls' = h.calls
           /\ notes' = h.notes
           /\ preSnaps' = IF Len(h.undoStack) <= Len(preSnaps)
                          THEN SubSeq(preSnaps, 1, Len(h.undoStack))
                          ELSE preSnaps \o [i \in 1..(Len(h.undoStack) - Len(preSnaps)) |-> NoSnap]
    /\ UNCHANGED <<maxHistorySize, nextId, histGhost, storeVars, sizeVars, ctrlVars, nextObj,
                   cropPending, gestureSnap>>

NextKeys ==
    \/ ImageLoaded /\ Observe("upload", <<>>)
    \/ SetActiveTool("select") /\ Observe("tool", <<"select">>)
    \/ \E p \in Points : MouseDown(p) /\ Observe("mouse:down", <<p>>)
    \/ \E p \in Points : MouseMove(p) /\ Observe("mouse:move", <<p>>)
    \/ MouseUpDraw /\ Observe("mouse:up", <<>>)
    \/ MouseUpIdle /\ Observe("mouse:up", <<>>)
    \/ ClearSelection /\ Observe("clearSelection", <<>>)
    \/ \E key \in ShortcutKeys : KeyDown(key) /\ Observe("keydown", <<key>>)

SpecKeys == Init /\ [][NextKeys]_vars

\* C37: one Ctrl+Z keydown moves exactly one command from undoStack to
\* redoStack, and one Ctrl+Shift+Z or Ctrl+Y keydown moves exactly one command
\* back
Pressed(key) == lastUserOp'.op = "keydown" /\ lastUserOp'.args = <<key>>
C37_OneKeyOneStep ==
    [][/\ (Pressed("ctrl+z") /\ undoStack # <<>>) =>
            /\ undoStack' = Front(undoStack)
            /\ redoStack' = Append(redoStack, Last(undoStack))
       /\ ((Pressed("ctrl+shift+z") \/ Pressed("ctrl+y")) /\ redoStack # <<>>) =>
            /\ redoStack' = Front(redoStack)
            /\ undoStack' = Append(undoStack, Last(redoStack))]_vars

\* the part of C37 about Ctrl+Y, which only Canvas handles
T37_CtrlY ==
    [][(Pressed("ctrl+y") /\ redoStack # <<>>) =>
            /\ redoStack' = Front(redoStack)
            /\ undoStack' = Append(undoStack, Last(redoStack))]_vars

\* C38: after a step that changes a layer's mask (and the layer-sync pass it
\* triggers), each layer's bound object has a clip exactly when the layer has
\* a visible mask, and the clip is made from the layer's current mask data
ClipFollows(ls, map, os) ==
    \A i \in 1..Len(ls) :
        ls[i].id \in DOMAIN map =>
            LET o == os[map[ls[i].id]]
                shown == ls[i].mask # <<>> /\ ls[i].mask[1].visible
            IN  /\ o.clipPath # <<>> <=> shown
                /\ shown => o.clipPath = <<ls[i].mask[1].dataUrl>>
C38_ClipFollowsMask ==
    [][Masks(layers') # Masks(layers) => ClipFollows(layers', layerMapRef', objs')]_vars

\* the part of C38 about whether there is a clip, whatever it was made from
ClipPresent(ls, map, os) ==
    \A i \in 1..Len(ls) :
        ls[i].id \in DOMAIN map =>
            (os[map[ls[i].id]].clipPath # <<>> <=> (ls[i].mask # <<>> /\ ls[i].mask[1].visible))
T38_ClipPresent ==
    [][Masks(layers') # Masks(layers) => ClipPresent(layers', layerMapRef', objs')]_vars

\* ---------------------------------------------------------------------------
\* Replacing masks that may be hidden: invert and feather on the two layers of
\* InitToggle
NextSetMask ==
    \/ Idle /\ InvertMask /\ Seen("invertMask", <<>>)
    \/ Idle /\ FeatherMask(<<3>>) /\ Seen("featherMask", <<3>>)
    \/ \E id \in LayerIds : Idle /\ ToggleMaskButton(id) /\ Seen("toggleMask", <<id>>)
    \/ Idle /\ Undo /\ Seen("undo", <<>>)
    \/ Idle /\ Redo /\ Seen("redo", <<>>)

SpecSetMask == InitToggle /\ [][NextSetMask]_vars

\* C39: reversing a SetMask command right after applying it gives every layer
\* the mask it had before, data and visible flag; a layer that had no mask has
\* none after the reverse
SetMaskApplied ==
    /\ undoStack' # <<>> /\ undoStack' # undoStack
    /\ Last(undoStack').type = "SetMask"
    /\ calls' = <<[method |-> "execute", id |-> Last(undoStack').id]>>
C39_SetMaskRoundTrip ==
    [][SetMaskApplied => Masks(UndoOf(Last(undoStack'), World').layers) = Masks(layers)]_vars

\* the part of C39 about the mask data alone
MaskData(ls) == [i \in 1..Len(ls) |-> IF ls[i].mask = <<>> THEN <<>> ELSE <<ls[i].mask[1].dataUrl>>]
T39_DataRestored ==
    [][SetMaskApplied => MaskData(UndoOf(Last(undoStack'), World').layers) = MaskData(layers)]_vars

\* ---------------------------------------------------------------------------
\* Layer changes while crop() waits for the cropped image

\* store.setActiveLayer(id), a click on a row of the layer panel
SetActiveLayer(id) ==
    /\ id \in LayerIds
    /\ id # activeLayerId
    /\ activeLayerId' = id
    /\ UNCHANGED <<histVars, nextId, histGhost, activeTool, nextLayer, worldVars,
                   sizeVars, ctrlVars, nextObj, cropPending, snapVars>>

NextRebind ==
    \/ ImageLoaded /\ Observe("upload", <<>>)
    \/ SetActiveTool("crop") /\ Observe("tool", <<"crop">>)
    \/ MouseDown(SiblingAnchor) /\ Observe("mouse:down", <<SiblingAnchor>>)
    \/ MouseMove(SiblingCorner) /\ Observe("mouse:move", <<SiblingCorner>>)
    \/ MouseUpDraw /\ Observe("mouse:up", <<>>)
    \/ \E a \in CropArguments : CropRequest(a) /\ Observe("crop", <<a>>)
    \/ \E id \in LayerIds : SetActiveLayer(id) /\ Observe("setActiveLayer", <<id>>)
    \/ \E id \in LayerIds : RemoveLayer(id) /\ Observe("removeLayer", <<id>>)
    \/ CropFinish /\ Observe("crop:resumed", <<>>)
    \/ Undo /\ Observe("undo", <<>>)
    \/ Redo /\ Observe("redo", <<>>)

SpecRebind == InitSiblings /\ [][NextRebind]_vars

\* C35: when a crop() call that captured an image resumes and applies its
\* Crop command, the command rebinds the layer that was bound to the image it
\* removes, afterwards every bound layer is bound to a drawable on the canvas,
\* and the binding of every other layer is as it was
CropResumed ==
    /\ lastUserOp'.op = "crop:resumed"
    /\ undoStack' # <<>> /\ SwapApplied(Last(undoStack'))
BindingsOnCanvas(map, canvas) == \A k \in DOMAIN map : map[k] \in canvas
OthersKept(a, map, mapp) ==
    \A k \in DOMAIN map :
        map[k] # a.previousImage => (k \in DOMAIN mapp /\ mapp[k] = map[k])
C35_CropBindsItsLayer ==
    [][CropResumed =>
        LET a == Last(undoStack')
        IN  /\ a.activeLayerId # 0 => BoundTo(a.previousImage, a.activeLayerId, layerMapRef)
            /\ BindingsOnCanvas(layerMapRef', canvasObjects')
            /\ OthersKept(a, layerMapRef, layerMapRef')]_vars

\* the same with no layer change between the capture and the command: the
\* active layer and its binding are those of the request
T35_NoChangeBetween ==
    [][(CropResumed /\ lastUserOp.op = "crop") =>
        LET a == Last(undoStack')
        IN  /\ BoundTo(a.previousImage, a.activeLayerId, layerMapRef)
            /\ BindingsOnCanvas(layerMapRef', canvasObjects')
            /\ OthersKept(a, layerMapRef, layerMapRef')]_vars

\* ---------------------------------------------------------------------------
\* Mask operations that overlap: invertMask() and featherMask(amount) wait for
\* loadImage before they build their command

\* calls that may wait at once
MaxMaskPending == 2

\* layer.mask?.dataUrl of layer id in the layers `ls` (<<>> = undefined)
maskDataUrlIn(ls, id) ==
    LET found == SelectSeq(ls, LAMBDA l : l.id = id)
    IN  IF found = <<>> \/ found[1].mask = <<>> THEN <<>> ELSE <<found[1].mask[1].dataUrl>>

\* invertMask() / featherMask(amount) up to `await loadImage(...)`: the call
\* keeps the `layers` of the render it was made in; `started` notes the
\* commands made so far
MaskRequest(operation, amount) ==
    /\ Len(maskPending) < MaxMaskPending
    /\ nextId + Len(maskPending) <= MaxActions
    /\ generateMaskDataFor(operation, amount) # <<>>
    /\ maskPending' = Append(maskPending, [data |-> generateMaskDataFor(operation, amount),
                                           layers |-> layers, started |-> nextId])
    /\ UNCHANGED <<histVars, ghostVars, editorVars>>

\* applyMaskAction(data) of a call made when the layers were `ls`
applyMaskActionWith(data, ls) ==
    IF activeLayerId = 0
    THEN UNCHANGED <<histVars, nextId, worldVars, preSnaps>>
    ELSE /\ execute(SetMaskAction(nextId, activeLayerId, maskDataUrlIn(ls, activeLayerId), data),
                    World)
         /\ nextId' = nextId + 1
         /\ preSnaps' = Pushed([valid |-> TRUE, snap |-> Snap])

\* the i-th waiting call resumes: its image has loaded
MaskResume(i) ==
    /\ i \in 1..Len(maskPending)
    /\ nextId <= MaxActions
    /\ applyMaskActionWith(maskPending[i].data, maskPending[i].layers)
    /\ maskPending' = SubSeq(maskPending, 1, i - 1) \o SubSeq(maskPending, i + 1, Len(maskPending))
    /\ UNCHANGED <<histGhost, storeVars, sizeVars, ctrlVars, nextObj, cropPending, gestureSnap>>

\* undo / redo from the toolbar while calls may be waiting
Aside(op) ==
    /\ lastUserOp' = [op |-> op, args |-> <<>>]
    /\ UNCHANGED <<scriptStep, maskCall, pixelVars>>

\* a step of a mask call, noted with the call's position in the queue
Waiting(op, args) ==
    /\ lastUserOp' = [op |-> op, args |-> args]
    /\ UNCHANGED <<scriptStep, maskCall, pixelsIn, pixelsOut>>

NextOverlap ==
    \/ MaskRequest("invert", <<>>) /\ Waiting("invertMask", <<>>)
    \/ MaskRequest("feather", <<3>>) /\ Waiting("featherMask", <<3>>)
    \/ \E i \in 1..MaxMaskPending : MaskResume(i) /\ Waiting("mask:resumed", <<i>>)
    \/ Undo /\ Aside("undo")
    \/ Redo /\ Aside("redo")

SpecOverlap == InitToggle /\ [][NextOverlap]_vars

\* C36: when a waiting mask call resumes and pushes its SetMask command right
\* on top of a SetMask command for the same layer that was made while the call
\* was waiting, the new command's prior mask is the mask the earlier command
\* installed, undoing the new command gives the layers the mask data they had
\* before it, and undoing both gives the layer the earlier command's prior mask
Overlapped ==
    /\ lastUserOp'.op = "mask:resumed"
    /\ undoStack # <<>> /\ undoStack' = Append(undoStack, Last(undoStack'))
    /\ Last(undoStack').type = "SetMask" /\ Last(undoStack).type = "SetMask"
    /\ Last(undoStack').layerId = Last(undoStack).layerId
    /\ Last(undoStack).id >= maskPending[lastUserOp'.args[1]].started
    /\ calls' = <<[method |-> "execute", id |-> Last(undoStack').id]>>
C36_OverlapInOrder ==
    [][Overlapped =>
        LET second == Last(undoStack')
            first == Last(undoStack)
        IN  /\ second.oldMaskData = first.newMaskData
            /\ MaskData(UndoOf(second, World').layers) = MaskData(layers)
            /\ maskDataUrlIn(UndoOf(first, UndoOf(second, World')).layers, first.layerId)
                   = first.oldMaskData]_vars

\* a call that resumes with the layers as they were when it was made records
\* the installed mask as its prior mask
T36_NoOverlap ==
    [][(/\ lastUserOp'.op = "mask:resumed"
        /\ undoStack' # undoStack
        /\ maskPending[lastUserOp'.args[1]].layers = layers) =>
            /\ Last(undoStack').oldMaskData = maskDataUrlIn(layers, Last(undoStack').layerId)
            /\ MaskData(UndoOf(Last(undoStack'), World').layers) = MaskData(layers)]_vars

====
